---------------------------- MODULE Spec2Model ----------------------------
(***************************************************************************)
(* A model of the DNB exam scraper: the rate limiter and retry decorators  *)
(* of src/src/utils.py, the pagination walk of src/src/scraper.py and the  *)
(* download engine of src/src/downloader.py.                               *)
(*                                                                         *)
(* Each component has its own specification over the shared variables:     *)
(*   GateSpec   RateLimiter.wait called by concurrent worker threads       *)
(*   RetrySpec  retry_on_failure around an arbitrary fallible operation    *)
(*   WalkSpec   DNBScraper.extract_pdf_links                               *)
(*   ClickSpec  DNBScraper._click_next_page, statement by statement        *)
(*   JobSpec    FileDownloader.batch_download / download_file              *)
(*   DetectSpec the type detection inside download_file                    *)
(*   FileSpec   FileDownloader.validate_file, statement by statement       *)
(*   NormSpec   the normalizers of src/src/enums.py                        *)
(*   TraverseSpec  the page traversal of run_validation (src/main.py)      *)
(*   ValSpec    the report and exit code of run_validation                 *)
(* A specification leaves the variables of the other components unchanged. *)
(***************************************************************************)
EXTENDS Integers, Sequences, FiniteSets, TLC

VARIABLES
    \* ---- rate limiter (utils.py RateLimiter, rate_limited) ----
    now,                \* the wall clock time.time(), in ticks of half a second
    last_request_time,  \* RateLimiter.last_request_time (NoTime for None)
    gpc,                \* per thread: where it is inside rate_limited.wrapper
    gwake,              \* per thread: the clock value at which its sleep ends
    gleft,              \* per thread: calls of the decorated function still to make
    starts,             \* the acquisitions: <<thread, time written>> in order
    \* ---- retry_on_failure around an arbitrary operation (utils.py) ----
    max_retries,        \* the decorator's max_retries
    backoff_factor,     \* the decorator's backoff_factor
    rpc,                \* where wrapper is: start, call, except, sleep, returned, raised
    attempt,            \* the loop variable of "for attempt in range(max_retries)"
    rexc,               \* the exception in flight ("none" when there is none)
    rlog,               \* what wrapper did so far: calls of func and sleeps
    \* ---- DNBScraper.extract_pdf_links (scraper.py) ----
    wpc,                \* where extract_pdf_links is
    max_pages,          \* its max_pages argument (NoMax for None)
    driver,             \* self.driver: "none" or "live"
    browsers,           \* browser sessions started by webdriver.Chrome()
    quits,              \* calls of driver.quit()
    page_number,        \* the local page_number
    all_pdf_data,       \* the local all_pdf_data
    seen_urls,          \* the local seen_urls
    pdf_links,          \* self.pdf_links
    wret,               \* what the call gave its caller
    wexit,              \* how the call is leaving its try block
    stale_depth,        \* nested _click_next_page calls after stale references
    discovered,         \* every anchor read from a page, in reading order
    pages_done,         \* pages whose links were extracted
    clicks,             \* script clicks of the next-page control
    transitions,        \* _click_next_page calls that returned True
    stopped_by,         \* why the loop ended: "max", "control", "ceiling"
    \* ---- DNBScraper._click_next_page (scraper.py), one chain of calls ----
    cpc,                \* where the innermost call is
    ccall,              \* how many calls deep the chain is (1 for the first)
    clooked,            \* the lookups of the innermost call, with outcomes
    next_button,        \* its local next_button: the locator that found it
    button_class,       \* its local button_class
    parent_class,       \* its local parent_class
    cscript,            \* script clicks made by the chain
    cret,               \* what the chain returned: "true", "false"
    \* ---- FileDownloader.batch_download / download_file (downloader.py) ----
    skip_existing,      \* the skip_existing argument of the batch
    fs,                 \* the files on disk: path -> content
    dirs,               \* the folders made by extract_zip_file
    download_history,   \* self.download_history
    failed_downloads,   \* self.failed_downloads
    successful,         \* batch_download's successful list
    failed,             \* batch_download's failed list
    jpc,                \* per job: where its call of download_file is
    jattempt,           \* per job: the retry wrapper's attempt
    jpath,              \* per job: the local output_path
    jctype,             \* per job: the local content_type
    jvalid,             \* per job: the path validate_file last accepted
    jresult,            \* per job: what download_file gave batch_download
    jlog,               \* per job: what each attempt did
    jsleeps,            \* per job: the backoff sleeps of the retry wrapper
    jgate,              \* per job: completed calls of limiter.wait()
    jexc,               \* per job: the exception in flight ("none" without)
    bpc,                \* download_pdfs: where it is after the pool
    metadata_file,      \* the file save_metadata writes
    failed_file,        \* the file save_failed_downloads writes
    \* ---- download_file, lines 306-325: type detection, one call ----
    tpc,                \* "map", "sniff", "done"
    content_type,       \* the local content_type
    leading,            \* the first bytes of the file written
    readable,           \* whether the file can be opened and read
    magic_bytes,        \* the local magic_bytes (Unread before the read)
    detected_extension, \* the local detected_extension ("none" for None)
    \* ---- FileDownloader.validate_file (downloader.py), one call ----
    fpc,                \* "exists", "size", "branch", "done"
    suffix,             \* the local ext: filepath.suffix.lower()
    exists,             \* filepath.exists()
    st_size,            \* filepath.stat().st_size
    header,             \* the first bytes of the file
    is_zipfile,         \* zipfile.is_zipfile(filepath)
    is_valid,           \* what the call returned ("none" before it does)
    \* ---- the normalizers (enums.py), one call ----
    npc,                \* "call" before the call, "done" after it
    nfun,               \* which normalizer is called
    ntext,              \* its argument
    nout,               \* what it returned
    \* ---- run_validation (main.py), the traversal of the pages ----
    upc,                \* "open", "page", "click", "close", "closed", "error"
    page_num,           \* the local page_num
    \* ---- run_validation (main.py), the report ----
    vpc,                \* the column whose loop is next, "write", "exited"
    all_values,         \* the distinct values of each column
    rows,               \* the rows of the report
    missing,            \* the missing flag
    report,             \* the rows written to validation_report.csv
    exit_code           \* the exit code of the process

gateVars == <<now, last_request_time, gpc, gwake, gleft, starts>>
retryVars == <<max_retries, backoff_factor, rpc, attempt, rexc, rlog>>
walkVars == <<wpc, max_pages, driver, browsers, quits, page_number,
              all_pdf_data, seen_urls, pdf_links, wret, wexit, stale_depth,
              discovered, pages_done, clicks, transitions, stopped_by>>

clickVars == <<cpc, ccall, clooked, next_button, button_class, parent_class,
               cscript, cret>>

jobVars == <<skip_existing, fs, dirs, download_history, failed_downloads,
             successful, failed, jpc, jattempt, jpath, jctype, jvalid,
             jresult, jlog, jsleeps, jgate, jexc, bpc, metadata_file,
             failed_file>>

detectVars == <<tpc, content_type, leading, readable, magic_bytes,
                detected_extension>>

fileVars == <<fpc, suffix, exists, st_size, header, is_zipfile, is_valid>>

normVars == <<npc, nfun, ntext, nout>>

traverseVars == <<upc, page_num>>

valVars == <<vpc, all_values, rows, missing, report, exit_code>>

vars ==
    <<gateVars, retryVars, walkVars, clickVars, jobVars, detectVars, fileVars,
      normVars, traverseVars, valVars>>

\* What the actions of one component leave alone.
GateFrame ==
    UNCHANGED <<retryVars, walkVars, jobVars, normVars, valVars, clickVars,
                detectVars, fileVars, traverseVars>>
RetryFrame ==
    UNCHANGED <<gateVars, walkVars, jobVars, normVars, valVars, clickVars,
                detectVars, fileVars, traverseVars>>
WalkFrame ==
    UNCHANGED <<gateVars, retryVars, jobVars, normVars, valVars, clickVars,
                detectVars, fileVars, traverseVars>>
JobFrame ==
    UNCHANGED <<gateVars, retryVars, walkVars, normVars, valVars, clickVars,
                detectVars, fileVars, traverseVars>>
NormFrame ==
    UNCHANGED <<gateVars, retryVars, walkVars, jobVars, valVars, clickVars,
                detectVars, fileVars, traverseVars>>
ClickFrame ==
    UNCHANGED <<gateVars, retryVars, walkVars, jobVars, normVars, valVars,
                detectVars, fileVars, traverseVars>>
DetectFrame ==
    UNCHANGED <<gateVars, retryVars, walkVars, jobVars, normVars, valVars,
                clickVars, fileVars, traverseVars>>
FileFrame ==
    UNCHANGED <<gateVars, retryVars, walkVars, jobVars, normVars, valVars,
                clickVars, detectVars, traverseVars>>
TraverseFrame ==
    UNCHANGED <<gateVars, retryVars, walkVars, jobVars, normVars, valVars,
                clickVars, detectVars, fileVars>>
ValFrame ==
    UNCHANGED <<gateVars, retryVars, walkVars, jobVars, normVars, clickVars,
                detectVars, fileVars, traverseVars>>

-----------------------------------------------------------------------------
(***************************************************************************)
(* RateLimiter and rate_limited (src/src/utils.py)                          *)
(***************************************************************************)

\* Number of worker threads sharing the one limiter of @rate_limited().
NumThreads == 2
\* Calls each thread makes.
MaxCalls == 2
\* The clock stops advancing here.
MaxTime == 6

\* REQUEST_DELAY = 1.5 s, in ticks of half a second.
REQUEST_DELAY == 3

\* last_request_time = None
NoTime == -1

Threads == 1..NumThreads

GateInit ==
    /\ now = 0
    /\ last_request_time = NoTime
    /\ gpc = [t \in Threads |-> "idle"]
    /\ gwake = [t \in Threads |-> 0]
    /\ gleft = [t \in Threads |-> MaxCalls]
    /\ starts = <<>>

\* No thread ever calls the limiter.
GateIdle ==
    /\ now = 0
    /\ last_request_time = NoTime
    /\ gpc = [t \in Threads |-> "idle"]
    /\ gwake = [t \in Threads |-> 0]
    /\ gleft = [t \in Threads |-> 0]
    /\ starts = <<>>

\* rate_limited.wrapper is entered: limiter.wait() is about to run.
GateEnter(t) ==
    /\ GateFrame
    /\ gpc[t] = "idle"
    /\ gleft[t] > 0
    /\ gpc' = [gpc EXCEPT ![t] = "test"]
    /\ UNCHANGED <<now, last_request_time, gwake, gleft, starts>>

\* wait, line 165: if self.last_request_time is not None
GateTest(t) ==
    /\ GateFrame
    /\ gpc[t] = "test"
    /\ gpc' = [gpc EXCEPT ![t] =
                 IF last_request_time = NoTime THEN "stamp" ELSE "elapsed"]
    /\ UNCHANGED <<now, last_request_time, gwake, gleft, starts>>

\* wait, lines 166-170: elapsed = time.time() - self.last_request_time;
\* if elapsed < self.delay the thread sleeps for delay - elapsed.
GateElapsed(t) ==
    /\ GateFrame
    /\ gpc[t] = "elapsed"
    /\ LET elapsed == now - last_request_time IN
         IF elapsed < REQUEST_DELAY
         THEN /\ gpc' = [gpc EXCEPT ![t] = "sleep"]
              /\ gwake' = [gwake EXCEPT ![t] = now + (REQUEST_DELAY - elapsed)]
         ELSE /\ gpc' = [gpc EXCEPT ![t] = "stamp"]
              /\ UNCHANGED gwake
    /\ UNCHANGED <<now, last_request_time, gleft, starts>>

\* time.sleep(sleep_time) returns, no earlier than asked.
GateWake(t) ==
    /\ GateFrame
    /\ gpc[t] = "sleep"
    /\ now >= gwake[t]
    /\ gpc' = [gpc EXCEPT ![t] = "stamp"]
    /\ UNCHANGED <<now, last_request_time, gwake, gleft, starts>>

\* wait, line 172: self.last_request_time = time.time()
GateStamp(t) ==
    /\ GateFrame
    /\ gpc[t] = "stamp"
    /\ last_request_time' = now
    /\ starts' = Append(starts, <<t, now>>)
    /\ gpc' = [gpc EXCEPT ![t] = "call"]
    /\ UNCHANGED <<now, gwake, gleft>>

\* wrapper, line 205: return func(*args, **kwargs)
GateCall(t) ==
    /\ GateFrame
    /\ gpc[t] = "call"
    /\ gpc' = [gpc EXCEPT ![t] = "idle"]
    /\ gleft' = [gleft EXCEPT ![t] = gleft[t] - 1]
    /\ UNCHANGED <<now, last_request_time, gwake, starts>>

\* The clock advances.
Tick ==
    /\ GateFrame
    /\ now < MaxTime
    /\ now' = now + 1
    /\ UNCHANGED <<last_request_time, gpc, gwake, gleft, starts>>

GateNext ==
    \/ Tick
    \/ \E t \in Threads :
         \/ GateEnter(t)
         \/ GateTest(t)
         \/ GateElapsed(t)
         \/ GateWake(t)
         \/ GateStamp(t)
         \/ GateCall(t)

-----------------------------------------------------------------------------
(***************************************************************************)
(* retry_on_failure (src/src/utils.py)                                     *)
(***************************************************************************)

\* Largest max_retries and backoff_factor tried.
MaxRetriesTried == 4
MaxBackoffTried == 3

\* What one call of the wrapped function does: it returns, raises an
\* exception of the decorator's "exceptions" tuple, or raises another one.
FuncOutcomes == {"ok", "retryable", "other"}

\* except exceptions as e: does the handler catch exc?
Caught(exc) == exc = "retryable"

\* The test of line 238 written one too far: attempt == max_retries.
LastAttemptLate(a, n) == a = n

\* line 238: if attempt == max_retries - 1
LastAttemptSkipped(a, n) == a = n + 1

LastAttempt(a, n) == a = n - 1

\* line 242: wait_time = backoff_factor ** attempt
WaitTimeFalling(b, a) == b ^ (2 - a)

WaitTime(b, a) == b ^ a

RetryIdle ==
    /\ max_retries = 0
    /\ backoff_factor = 1
    /\ rpc = "off"
    /\ attempt = 0
    /\ rexc = "none"
    /\ rlog = <<>>

RetryInit ==
    /\ max_retries \in 0..MaxRetriesTried
    /\ backoff_factor \in 1..MaxBackoffTried
    /\ rpc = "start"
    /\ attempt = 0
    /\ rexc = "none"
    /\ rlog = <<>>

\* line 234: the for loop starts; with max_retries = 0 its body never runs
\* and wrapper returns None (line 249).
RetryEnter ==
    /\ RetryFrame
    /\ rpc = "start"
    /\ rpc' = IF max_retries > 0 THEN "call" ELSE "returned"
    /\ UNCHANGED <<max_retries, backoff_factor, attempt, rexc, rlog>>

\* line 236: return func(*args, **kwargs)
RetryCall ==
    /\ RetryFrame
    /\ rpc = "call"
    /\ \E out \in FuncOutcomes :
         /\ rlog' = Append(rlog, [kind |-> "call", i |-> attempt, out |-> out])
         /\ IF out = "ok"
            THEN rpc' = "returned" /\ rexc' = "none"
            ELSE IF Caught(out)
            THEN rpc' = "except" /\ rexc' = out
            ELSE rpc' = "raised" /\ rexc' = out
    /\ UNCHANGED <<max_retries, backoff_factor, attempt>>

\* lines 237-247: the handler re-raises on the last attempt, else it sleeps.
RetryExcept ==
    /\ RetryFrame
    /\ rpc = "except"
    /\ IF LastAttempt(attempt, max_retries)
       THEN /\ rpc' = "raised"
            /\ UNCHANGED rlog
       ELSE /\ rpc' = "sleep"
            /\ rlog' = Append(rlog, [kind |-> "sleep", i |-> attempt,
                                     d |-> WaitTime(backoff_factor, attempt)])
    /\ UNCHANGED <<max_retries, backoff_factor, attempt, rexc>>

\* time.sleep(wait_time) returns and the loop takes its next value.
RetrySleepDone ==
    /\ RetryFrame
    /\ rpc = "sleep"
    /\ attempt' = attempt + 1
    /\ rexc' = "none"
    /\ rpc' = IF attempt + 1 < max_retries THEN "call" ELSE "returned"
    /\ UNCHANGED <<max_retries, backoff_factor, rlog>>

RetryNext ==
    \/ RetryEnter
    \/ RetryCall
    \/ RetryExcept
    \/ RetrySleepDone

-----------------------------------------------------------------------------
(***************************************************************************)
(* DNBScraper.extract_pdf_links (src/src/scraper.py)                       *)
(***************************************************************************)

\* line 415: if page_number > 100
PageCeiling == 100

\* max_pages = None
NoMax == -1

\* The values of max_pages tried.
MaxPagesTried == {1, 2, PageCeiling + 1}

\* Anchors on one page, anchors read in one walk, nested stale retries.
MaxAnchorsPerPage == 2
MaxDiscovered == 3
MaxStale == 2

\* The anchors a page may hold: two hrefs of document 1 (one relative, one
\* absolute, with different data-atl-name), one of document 2, and a link
\* that is no document download.
Anchors ==
    { [href |-> "/document/1/download", tag |-> "a.pdf|1"],
      [href |-> "https://eduscol.education.fr/document/1/download", tag |-> ""],
      [href |-> "/document/2/download", tag |-> "b.pdf|2"],
      [href |-> "/node/7", tag |-> ""] }

SeqsUpTo(S, n) == UNION {[1..k -> S] : k \in 0..n}

\* driver.page_source: the anchors of the rendered page, in document order.
PageSources == SeqsUpTo(Anchors, MaxAnchorsPerPage)

\* _is_pdf_link: re.search(r'/document/[^/]+/download', url)
IsPdfLink(href) ==
    href \in { "/document/1/download",
               "https://eduscol.education.fr/document/1/download",
               "/document/2/download" }

\* urljoin(self.base_url, href), base_url on https://eduscol.education.fr
UrlJoin(href) ==
    CASE href = "/document/1/download"
           -> "https://eduscol.education.fr/document/1/download"
      [] href = "/document/2/download"
           -> "https://eduscol.education.fr/document/2/download"
      [] href = "/node/7"
           -> "https://eduscol.education.fr/node/7"
      [] OTHER -> href

\* _extract_links_from_current_page: the download anchors of the page as
\* {url, data_atl_name} records, in document order.
ExtractLinksFromCurrentPage(src) ==
    LET pdfs == SelectSeq(src, LAMBDA a : IsPdfLink(a.href)) IN
    [i \in 1..Len(pdfs) |->
        [url |-> UrlJoin(pdfs[i].href), data_atl_name |-> pdfs[i].tag]]

\* The test of line 395 left out: every link counts as new.
IsNewAlways(link, seen) == TRUE

\* line 395: if link_data['url'] not in seen_urls
IsNew(link, seen) == link.url \notin seen

\* lines 394-398: the loop that adds the links not seen before.
RECURSIVE AddUnique(_, _, _)
AddUnique(all, seen, data) ==
    IF data = <<>>
    THEN [all |-> all, seen |-> seen]
    ELSE LET l == Head(data) IN
         IF IsNew(l, seen)
         THEN AddUnique(Append(all, l), seen \cup {l.url}, Tail(data))
         ELSE AddUnique(all, seen, Tail(data))

\* line 403, compared with >: the walk goes one page too far.
ReachedMaxLate(k, n) == k # NoMax /\ n > k

\* line 403: if max_pages is not None and page_number >= max_pages
ReachedMax(k, n) == k # NoMax /\ n >= k

\* line 415, one page too late.
OverCeilingLate(n) == n > PageCeiling + 1

\* line 415: if page_number > 100
OverCeiling(n) == n > PageCeiling

\* What the browser does during one call of _click_next_page: how the
\* control is found, and what happens next.
ControlScenarios ==
    { [by |-> "none", then |-> "absent"],
      [by |-> "none", then |-> "lookup_error"] }
    \cup
    [ by : {"primary", "secondary"},
      then : { "disabled_self", "disabled_parent", "inspect_stale",
               "no_parent", "click_stale", "click_error",
               "load_timeout", "loaded" } ]

\* Did execute_script("arguments[0].click();") run (line 285)?
Clicked(sc) == sc.then \in {"load_timeout", "loaded"}

\* Every failure of the control taken for a loaded page.
ClickOutcomeTrusting(sc) ==
    IF sc.then \in {"inspect_stale", "click_stale"} THEN "stale" ELSE "true"

\* The outcome of one call of _click_next_page, not counting the nested
\* call of line 307: "true", "false", or "stale" (the nested call follows).
ClickOutcome(sc) ==
    CASE sc.then \in {"inspect_stale", "click_stale"} -> "stale"
      [] sc.then = "loaded" -> "true"
      [] OTHER -> "false"

\* What _init_driver may do: return a driver, fail to start the browser,
\* or start it and fail in driver.implicitly_wait(10) (lines 128-136).
InitDriverOutcomes == {"ok", "no_browser", "setup_error"}

\* extract_pdf_links has not been called.
WalkIdle ==
    /\ wpc = "off"
    /\ max_pages = NoMax
    /\ driver = "none"
    /\ browsers = 0
    /\ quits = 0
    /\ page_number = 0
    /\ all_pdf_data = <<>>
    /\ seen_urls = {}
    /\ pdf_links = <<>>
    /\ wret = [kind |-> "none"]
    /\ wexit = "none"
    /\ stale_depth = 0
    /\ discovered = <<>>
    /\ pages_done = 0
    /\ clicks = 0
    /\ transitions = 0
    /\ stopped_by = "none"

\* A fresh DNBScraper (__init__, lines 90-94) about to run
\* extract_pdf_links(max_pages).
WalkInit ==
    /\ wpc = "start"
    /\ max_pages \in {NoMax} \cup MaxPagesTried
    /\ driver = "none"
    /\ browsers = 0
    /\ quits = 0
    /\ page_number = 0
    /\ all_pdf_data = <<>>
    /\ seen_urls = {}
    /\ pdf_links = <<>>
    /\ wret = [kind |-> "none"]
    /\ wexit = "none"
    /\ stale_depth = 0
    /\ discovered = <<>>
    /\ pages_done = 0
    /\ clicks = 0
    /\ transitions = 0
    /\ stopped_by = "none"

\* lines 343-348: the locals are set and _init_driver runs.
WalkStart ==
    /\ WalkFrame
    /\ wpc = "start"
    /\ all_pdf_data' = <<>>
    /\ seen_urls' = {}
    /\ \E out \in InitDriverOutcomes :
         CASE out = "ok" ->
                /\ driver' = "live"
                /\ browsers' = browsers + 1
                /\ wpc' = "navigate"
                /\ UNCHANGED wexit
           [] out = "no_browser" ->
                /\ wexit' = "raise"
                /\ wpc' = "finally"
                /\ UNCHANGED <<driver, browsers>>
           [] out = "setup_error" ->
                /\ browsers' = browsers + 1
                /\ wexit' = "raise"
                /\ wpc' = "finally"
                /\ UNCHANGED driver
    /\ UNCHANGED <<max_pages, quits, page_number, pdf_links, wret, stale_depth,
                   discovered, pages_done, clicks, transitions, stopped_by>>

\* lines 351-352: self.driver.get(url)
WalkNavigate ==
    /\ WalkFrame
    /\ wpc = "navigate"
    /\ \E ok \in BOOLEAN :
         IF ok THEN wpc' = "wait_body" /\ UNCHANGED wexit
               ELSE wpc' = "finally" /\ wexit' = "raise"
    /\ UNCHANGED <<max_pages, driver, browsers, quits, page_number,
                   all_pdf_data, seen_urls, pdf_links, wret, stale_depth,
                   discovered, pages_done, clicks, transitions, stopped_by>>

\* lines 355-385: the bounded wait for the page, the overlays (every error
\* there is swallowed), then page_number = 1.
WalkWaitBody ==
    /\ WalkFrame
    /\ wpc = "wait_body"
    /\ \E ok \in BOOLEAN :
         IF ok THEN wpc' = "extract" /\ page_number' = 1 /\ UNCHANGED wexit
               ELSE wpc' = "finally" /\ wexit' = "raise" /\ UNCHANGED page_number
    /\ UNCHANGED <<max_pages, driver, browsers, quits, all_pdf_data, seen_urls,
                   pdf_links, wret, stale_depth, discovered, pages_done,
                   clicks, transitions, stopped_by>>

\* The list stored, and an empty one returned.
WalkBreakReturningNothing(all, why) ==
    /\ pdf_links' = all
    /\ wret' = [kind |-> "list", val |-> <<>>]
    /\ wexit' = "return"
    /\ stopped_by' = why
    /\ wpc' = "finally"

\* lines 419-422 after a break: self.pdf_links = all_pdf_data and the
\* return of it, which the finally block precedes.
WalkBreak(all, why) ==
    /\ pdf_links' = all
    /\ wret' = [kind |-> "list", val |-> all]
    /\ wexit' = "return"
    /\ stopped_by' = why
    /\ wpc' = "finally"

\* lines 387-405: one page is read and its new links added; the walk stops
\* here when max_pages is reached.
WalkExtract ==
    /\ WalkFrame
    /\ wpc = "extract"
    /\ \/ \E src \in PageSources :
            /\ Len(discovered) + Len(src) <= MaxDiscovered
            /\ LET added == AddUnique(all_pdf_data, seen_urls,
                                      ExtractLinksFromCurrentPage(src)) IN
                 /\ all_pdf_data' = added.all
                 /\ seen_urls' = added.seen
                 /\ discovered' = discovered \o src
                 /\ pages_done' = pages_done + 1
                 /\ IF ReachedMax(max_pages, page_number)
                    THEN WalkBreak(added.all, "max")
                    ELSE /\ wpc' = "advance"
                         /\ UNCHANGED <<pdf_links, wret, wexit, stopped_by>>
       \/ \* self.driver.page_source raises
          /\ wpc' = "finally"
          /\ wexit' = "raise"
          /\ UNCHANGED <<all_pdf_data, seen_urls, discovered, pages_done,
                         pdf_links, wret, stopped_by>>
    /\ UNCHANGED <<max_pages, driver, browsers, quits, page_number,
                   stale_depth, clicks, transitions>>

\* lines 408-417 with _click_next_page (lines 245-310): one call of it.  A
\* stale reference leads to the nested call of line 307; False ends the
\* walk; True moves to the next page unless the ceiling is passed.
WalkClickNextPage ==
    /\ WalkFrame
    /\ wpc = "advance"
    /\ \E sc \in ControlScenarios :
         /\ clicks' = clicks + (IF Clicked(sc) THEN 1 ELSE 0)
         /\ CASE ClickOutcome(sc) = "stale" ->
                   /\ stale_depth < MaxStale
                   /\ stale_depth' = stale_depth + 1
                   /\ UNCHANGED <<wpc, page_number, transitions, pdf_links,
                                  wret, wexit, stopped_by>>
              [] ClickOutcome(sc) = "false" ->
                   /\ stale_depth' = 0
                   /\ WalkBreak(all_pdf_data, "control")
                   /\ UNCHANGED <<page_number, transitions>>
              [] ClickOutcome(sc) = "true" ->
                   /\ stale_depth' = 0
                   /\ transitions' = transitions + 1
                   /\ page_number' = page_number + 1
                   /\ IF OverCeiling(page_number + 1)
                      THEN WalkBreak(all_pdf_data, "ceiling")
                      ELSE /\ wpc' = "extract"
                           /\ UNCHANGED <<pdf_links, wret, wexit, stopped_by>>
    /\ UNCHANGED <<max_pages, driver, browsers, quits, all_pdf_data, seen_urls,
                   discovered, pages_done>>

\* lines 424-430 with close (lines 503-517): the finally block quits the
\* driver when self.driver is set (an error of quit is swallowed) and
\* resets self.driver; then the call returns or re-raises.
WalkFinally ==
    /\ WalkFrame
    /\ wpc = "finally"
    /\ IF driver # "none"
       THEN quits' = quits + 1 /\ driver' = "none"
       ELSE UNCHANGED <<quits, driver>>
    /\ IF wexit = "return"
       THEN wpc' = "done" /\ UNCHANGED wret
       ELSE wpc' = "error" /\ wret' = [kind |-> "raise"]
    /\ UNCHANGED <<max_pages, browsers, page_number, all_pdf_data, seen_urls,
                   pdf_links, wexit, stale_depth, discovered, pages_done,
                   clicks, transitions, stopped_by>>

WalkNext ==
    \/ WalkStart
    \/ WalkNavigate
    \/ WalkWaitBody
    \/ WalkExtract
    \/ WalkClickNextPage
    \/ WalkFinally

-----------------------------------------------------------------------------
(***************************************************************************)
(* DNBScraper._click_next_page (src/src/scraper.py), statement by          *)
(* statement, with the nested calls of line 307                            *)
(***************************************************************************)

\* The locator of line 261 and the fallback of line 267.
Primary == "a[rel='next']"
Secondary == "a[title*='page suivante']"

\* What a WebDriverWait(...).until(presence_of_element_located(...)) may
\* do: return the element, raise TimeoutException, raise another error.
LookupOutcomes == {"found", "timeout", "error"}

\* The class attributes a control or its parent may carry ("" for none).
ClassValues ==
    {"", "fr-pagination__link", "is-disabled",
     "fr-pagination__link is-disabled"}

\* 'is-disabled' in c
HasDisabled(c) == c \in {"is-disabled", "fr-pagination__link is-disabled"}

\* The fallback taken whatever the primary lookup did.
FallsBackAlways(out) == TRUE

\* line 263: except TimeoutException, the only way into the fallback.
FallsBack(out) == out = "timeout"

\* line 279: 'is-disabled' in button_class or 'is-disabled' in parent_class
MarkedDisabled(bc, pc) == HasDisabled(bc) \/ HasDisabled(pc)

\* _click_next_page has not been called.
ClickIdle ==
    /\ cpc = "off"
    /\ ccall = 0
    /\ clooked = <<>>
    /\ next_button = "none"
    /\ button_class = ""
    /\ parent_class = ""
    /\ cscript = 0
    /\ cret = "none"

\* line 257 of the first call: next_button = None, nothing looked up.
ClickInit ==
    /\ cpc = "primary"
    /\ ccall = 1
    /\ clooked = <<>>
    /\ next_button = "none"
    /\ button_class = ""
    /\ parent_class = ""
    /\ cscript = 0
    /\ cret = "none"

\* A return statement of the innermost call, whose value every enclosing
\* call returns unchanged (line 307).
ClickReturn(v) ==
    /\ cpc' = "returned"
    /\ cret' = v

\* lines 259-263: the primary lookup.  A timeout enters the fallback; any
\* other error leaves the try block for line 308.
ClickLookupPrimary ==
    /\ ClickFrame
    /\ cpc = "primary"
    /\ \E out \in LookupOutcomes :
         /\ clooked' = Append(clooked, [locator |-> Primary, out |-> out])
         /\ next_button' = IF out = "found" THEN Primary ELSE next_button
         /\ IF FallsBack(out)
            THEN cpc' = "secondary" /\ UNCHANGED cret
            ELSE IF out = "found"
                 THEN cpc' = "inspect" /\ UNCHANGED cret
                 ELSE ClickReturn("false")
    /\ UNCHANGED <<ccall, button_class, parent_class, cscript>>

\* lines 265-271: the fallback lookup; its timeout returns False.
ClickLookupSecondary ==
    /\ ClickFrame
    /\ cpc = "secondary"
    /\ \E out \in LookupOutcomes :
         /\ clooked' = Append(clooked, [locator |-> Secondary, out |-> out])
         /\ next_button' = IF out = "found" THEN Secondary ELSE next_button
         /\ IF out = "found"
            THEN cpc' = "inspect" /\ UNCHANGED cret
            ELSE ClickReturn("false")
    /\ UNCHANGED <<ccall, button_class, parent_class, cscript>>

\* lines 274-281: the class of the control and of its parent are read;
\* a control marked disabled returns False.  Reading a detached control
\* raises StaleElementReferenceException (line 304); a control without
\* parent raises NoSuchElementException (line 301).
ClickInspect ==
    /\ ClickFrame
    /\ cpc = "inspect"
    /\ \/ \E bc, pc \in ClassValues :
            /\ button_class' = bc
            /\ parent_class' = pc
            /\ IF MarkedDisabled(bc, pc)
               THEN ClickReturn("false")
               ELSE cpc' = "click" /\ UNCHANGED cret
       \/ /\ ccall <= MaxStale
          /\ cpc' = "stale"
          /\ UNCHANGED <<button_class, parent_class, cret>>
       \/ /\ ClickReturn("false")
          /\ UNCHANGED <<button_class, parent_class>>
    /\ UNCHANGED <<ccall, clooked, next_button, cscript>>

\* line 285: the script click.  It may meet a detached control (line 304)
\* or fail otherwise (line 308).
ClickScript ==
    /\ ClickFrame
    /\ cpc = "click"
    /\ \/ /\ cscript' = cscript + 1
          /\ cpc' = "wait_table"
          /\ UNCHANGED cret
       \/ /\ ccall <= MaxStale
          /\ cpc' = "stale"
          /\ UNCHANGED <<cscript, cret>>
       \/ /\ ClickReturn("false")
          /\ UNCHANGED cscript
    /\ UNCHANGED <<ccall, clooked, next_button, button_class, parent_class>>

\* lines 289-296: the pause and the bounded wait for the table; its
\* timeout returns False (line 301).
ClickWaitTable ==
    /\ ClickFrame
    /\ cpc = "wait_table"
    /\ \E ok \in BOOLEAN : ClickReturn(IF ok THEN "true" ELSE "false")
    /\ UNCHANGED <<ccall, clooked, next_button, button_class, parent_class,
                   cscript>>

\* lines 304-307: after one second the method calls itself; the nested
\* call starts with its own locals.
ClickStaleRetry ==
    /\ ClickFrame
    /\ cpc = "stale"
    /\ ccall' = ccall + 1
    /\ clooked' = <<>>
    /\ next_button' = "none"
    /\ button_class' = ""
    /\ parent_class' = ""
    /\ cpc' = "primary"
    /\ UNCHANGED <<cscript, cret>>

ClickNext ==
    \/ ClickLookupPrimary
    \/ ClickLookupSecondary
    \/ ClickInspect
    \/ ClickScript
    \/ ClickWaitTable
    \/ ClickStaleRetry

-----------------------------------------------------------------------------
(***************************************************************************)
(* FileDownloader: download_file under its two decorators, validate_file,  *)
(* check_existing, extract_zip_file and batch_download                     *)
(* (src/src/downloader.py).                                                *)
(*                                                                         *)
(* A file is its leading signature, its size in bytes and whether zipfile  *)
(* can open it.  A path is the stem of the file name and its suffix; every *)
(* job writes under its own stem.  A record of download_history keeps the  *)
(* url and the filepath, a record of failed_downloads the url; size, error *)
(* text, timestamp and metadata are left out.                              *)
(***************************************************************************)
Workers == 2                \* max_workers of the batch
MaxChunks == 1              \* chunks written before a stream breaks
MAX_RETRIES == 3
RETRY_BACKOFF_FACTOR == 2
CHUNK_SIZE == 8192
MIN_PDF_SIZE == 1024
MinFileSize == 100
MinDocSize == 1000

Jobs == {"u1", "u2"}
Exts == {".pdf", ".zip", ".bin"}
JobPaths == [stem : {"f1", "f2"}, ext : Exts]
NoPath == [stem |-> "", ext |-> ""]

NoFile == [there |-> FALSE, sig |-> "", size |-> 0, archive |-> FALSE]
PdfDoc == [there |-> TRUE, sig |-> "%PDF", size |-> 20000, archive |-> FALSE]
ZipDoc == [there |-> TRUE, sig |-> "PK", size |-> 20000, archive |-> TRUE]
BadZip == [there |-> TRUE, sig |-> "PK", size |-> 20000, archive |-> FALSE]
TinyPdf == [there |-> TRUE, sig |-> "%PDF", size |-> 50, archive |-> FALSE]
Bodies == {PdfDoc, ZipDoc, BadZip, TinyPdf}
ContentTypes == {"application/pdf", "application/zip", "unknown"}

\* What the server may answer for a url, and after how many chunks its
\* stream may break: anything for the first, and for the second a sound
\* PDF declared as one, whole or not at all.
Serves(j) ==
    IF j = "u1" THEN ContentTypes \X Bodies
    ELSE {<<"application/pdf", PdfDoc>>}
Breaks(j) == IF j = "u1" THEN 0..MaxChunks ELSE {}

\* What is on disk when the stream breaks after n whole chunks.
Partial(body, n) ==
    [there |-> TRUE,
     sig |-> IF n = 0 THEN "" ELSE body.sig,
     size |-> n * CHUNK_SIZE,
     archive |-> FALSE]

\* The disk before the batch: empty, or one earlier file under the first
\* job's stem, at its destination or at the path a rename would take.
EmptyDisk == [p \in JobPaths |-> NoFile]
Disks ==
    {EmptyDisk} \cup
    {[EmptyDisk EXCEPT ![[stem |-> "f1", ext |-> ".pdf"]] = c] :
        c \in {PdfDoc, TinyPdf}} \cup
    {[EmptyDisk EXCEPT ![[stem |-> "f1", ext |-> ".zip"]] = c] :
        c \in {ZipDoc, BadZip}}

\* output_path of a job: the file name in its metadata, under output_dir.
OutputPath(j) == [stem |-> IF j = "u1" THEN "f1" ELSE "f2", ext |-> ".pdf"]
\* with_suffix giving the path it was called on.
WithSuffixKept(p, e) == p

\* output_path.with_suffix(detected_extension)
WithSuffix(p, e) == [p EXCEPT !.ext = e]

ValidContent(ext, c) ==
    IF ~c.there THEN FALSE
    ELSE IF c.size < MinFileSize THEN FALSE
    ELSE IF ext = ".pdf" THEN
        IF c.size < MIN_PDF_SIZE THEN FALSE ELSE c.sig = "%PDF"
    ELSE IF ext = ".zip" THEN c.archive
    ELSE IF ext \in {".docx", ".odt"} THEN c.archive
    ELSE IF ext = ".doc" THEN c.size > MinDocSize
    ELSE IF ext = ".bin" THEN c.size > MinFileSize
    ELSE TRUE

ValidateFileLax(disk, p) == TRUE

ValidateFile(disk, p) == ValidContent(p.ext, disk[p])

CheckExistingNever(disk, p) == FALSE

\* check_existing reduced to line 103: the file is there.
CheckExistingByPresence(disk, p) == disk[p].there

CheckExisting(disk, p) ==
    IF ~disk[p].there THEN FALSE
    ELSE IF disk[p].size < MinFileSize THEN FALSE
    ELSE ValidateFile(disk, p)

\* `if not self.validate_file(output_path)`
RejectedNever(ok) == FALSE

RejectedAlways(ok) == TRUE

Rejected(ok) == ~ok

\* The content-type table and the signature table.
ExtensionFromContentType(ct) ==
    IF ct = "application/pdf" THEN ".pdf"
    ELSE IF ct = "application/zip" THEN ".zip"
    ELSE "none"

DetectFileTypeFromContent(sig) ==
    IF sig = "%PDF" THEN ".pdf"
    ELSE IF sig = "PK" THEN ".zip"
    ELSE ".bin"

DetectedExtension(ct, c) ==
    IF ExtensionFromContentType(ct) # "none"
    THEN ExtensionFromContentType(ct)
    ELSE DetectFileTypeFromContent(c.sig)

\* The subclasses of requests.RequestException tried: the HTTPError of
\* raise_for_status for a server and for a client error status, the two
\* with handlers of their own, and one with none.
RequestExceptions ==
    {"HTTPError 503", "HTTPError 404", "ConnectionError", "Timeout",
     "TooManyRedirects"}
FetchErrors == RequestExceptions \cup {"OSError"}
JobCaught(e) == e \in RequestExceptions

\* The errors session.get and raise_for_status are made to raise for a
\* url.
Raises(j) ==
    IF j = "u1" THEN {"HTTPError 404", "Timeout", "OSError"}
    ELSE {"HTTPError 503", "TooManyRedirects", "OSError"}

NoResult == [kind |-> "none", path |-> NoPath]
Entry(did, ct, body) == [did |-> did, ctype |-> ct, body |-> body]
Did(did) == Entry(did, "", NoFile)
Running == {"gate", "check", "fetch", "sleep", "detect", "validate",
            "record", "extract"}

\* A persisted list: absent, or the list that was dumped; the second file
\* may be there from an earlier run.
NotSaved == [there |-> FALSE, data |-> <<>>]
Saved(list) == [there |-> TRUE, data |-> list]
OldFailures == <<[url |-> "u0"]>>

JobIdle ==
    /\ skip_existing = FALSE
    /\ fs = EmptyDisk
    /\ dirs = {}
    /\ download_history = <<>>
    /\ failed_downloads = <<>>
    /\ successful = <<>>
    /\ failed = <<>>
    /\ jpc = [j \in Jobs |-> "off"]
    /\ jattempt = [j \in Jobs |-> 0]
    /\ jpath = [j \in Jobs |-> NoPath]
    /\ jctype = [j \in Jobs |-> ""]
    /\ jvalid = [j \in Jobs |-> NoPath]
    /\ jresult = [j \in Jobs |-> NoResult]
    /\ jlog = [j \in Jobs |-> <<>>]
    /\ jsleeps = [j \in Jobs |-> <<>>]
    /\ jgate = [j \in Jobs |-> 0]
    /\ jexc = [j \in Jobs |-> "none"]
    /\ bpc = "off"
    /\ metadata_file = NotSaved
    /\ failed_file = NotSaved

JobInit ==
    /\ skip_existing \in BOOLEAN
    /\ fs \in Disks
    /\ dirs = {}
    /\ download_history = <<>>
    /\ failed_downloads = <<>>
    /\ successful = <<>>
    /\ failed = <<>>
    /\ jpc = [j \in Jobs |-> "queued"]
    /\ jattempt = [j \in Jobs |-> 0]
    /\ jpath = [j \in Jobs |-> NoPath]
    /\ jctype = [j \in Jobs |-> ""]
    /\ jvalid = [j \in Jobs |-> NoPath]
    /\ jresult = [j \in Jobs |-> NoResult]
    /\ jlog = [j \in Jobs |-> <<>>]
    /\ jsleeps = [j \in Jobs |-> <<>>]
    /\ jgate = [j \in Jobs |-> 0]
    /\ jexc = [j \in Jobs |-> "none"]
    /\ bpc = "pool"
    /\ metadata_file = NotSaved
    /\ failed_file \in {NotSaved, Saved(OldFailures)}

\* A worker of the pool takes a submitted job and enters the retry loop.
JobStart(j) ==
    /\ jpc[j] = "queued"
    /\ Cardinality({k \in Jobs : jpc[k] \in Running}) < Workers
    /\ jpc' = [jpc EXCEPT ![j] = "gate"]
    /\ UNCHANGED <<jexc, bpc, metadata_file, failed_file>>
    /\ UNCHANGED <<skip_existing, fs, dirs, download_history,
                   failed_downloads, successful, failed, jattempt, jpath,
                   jctype, jvalid, jresult, jlog, jsleeps, jgate>>
    /\ JobFrame

\* rate_limited's wrapper: limiter.wait(), then the function.
JobGate(j) ==
    /\ jpc[j] = "gate"
    /\ jgate' = [jgate EXCEPT ![j] = @ + 1]
    /\ jpc' = [jpc EXCEPT ![j] = "check"]
    /\ UNCHANGED <<jexc, bpc, metadata_file, failed_file>>
    /\ UNCHANGED <<skip_existing, fs, dirs, download_history,
                   failed_downloads, successful, failed, jattempt, jpath,
                   jctype, jvalid, jresult, jlog, jsleeps>>
    /\ JobFrame

\* download_file up to the try: the destination, and the skip of a file
\* that is already there.
JobCheck(j) ==
    /\ jpc[j] = "check"
    /\ jpath' = [jpath EXCEPT ![j] = OutputPath(j)]
    /\ jvalid' = [jvalid EXCEPT ![j] = NoPath]
    /\ IF skip_existing /\ CheckExisting(fs, OutputPath(j))
       THEN /\ jresult' = [jresult EXCEPT
                              ![j] = [kind |-> "path", path |-> OutputPath(j)]]
            /\ jlog' = [jlog EXCEPT ![j] = Append(@, Did("skipped"))]
            /\ jpc' = [jpc EXCEPT ![j] = "returned"]
       ELSE /\ jpc' = [jpc EXCEPT ![j] = "fetch"]
            /\ UNCHANGED <<jresult, jlog>>
    /\ UNCHANGED <<jexc, bpc, metadata_file, failed_file>>
    /\ UNCHANGED <<skip_existing, fs, dirs, download_history,
                   failed_downloads, successful, failed, jattempt, jctype,
                   jsleeps, jgate>>
    /\ JobFrame

\* An exception inside the try: the handler records the failure and raises
\* again; the retry wrapper sleeps and goes round, or lets it out.
JobFail(j, e) ==
    /\ jexc' = [jexc EXCEPT ![j] = e]
    /\ failed_downloads' = Append(failed_downloads, [url |-> j])
    /\ jlog' = [jlog EXCEPT ![j] =
           Append(@, Did(IF JobCaught(e) THEN "retryable" ELSE "other"))]
    /\ IF JobCaught(e) /\ ~LastAttempt(jattempt[j], MAX_RETRIES)
       THEN /\ jsleeps' = [jsleeps EXCEPT ![j] =
                   Append(@, WaitTime(RETRY_BACKOFF_FACTOR, jattempt[j]))]
            /\ jpc' = [jpc EXCEPT ![j] = "sleep"]
            /\ UNCHANGED jresult
       ELSE /\ jresult' = [jresult EXCEPT
                              ![j] = [kind |-> "raise", path |-> NoPath]]
            /\ jpc' = [jpc EXCEPT ![j] = "raised"]
            /\ UNCHANGED jsleeps

\* session.get, raise_for_status and the streamed write of the body.
JobFetch(j) ==
    /\ jpc[j] = "fetch"
    /\ \/ \E e \in Raises(j) :
            /\ JobFail(j, e)
            /\ UNCHANGED <<fs, jctype>>
       \/ \E r \in Serves(j) :
            \/ /\ fs' = [fs EXCEPT ![jpath[j]] = r[2]]
               /\ jctype' = [jctype EXCEPT ![j] = r[1]]
               /\ jlog' = [jlog EXCEPT
                             ![j] = Append(@, Entry("fetched", r[1], r[2]))]
               /\ jpc' = [jpc EXCEPT ![j] = "detect"]
               /\ UNCHANGED <<failed_downloads, jresult, jsleeps, jexc>>
            \/ \E n \in Breaks(j), e \in {"ConnectionError", "OSError"} :
                 /\ n * CHUNK_SIZE < r[2].size
                 /\ fs' = [fs EXCEPT ![jpath[j]] = Partial(r[2], n)]
                 /\ JobFail(j, e)
                 /\ UNCHANGED jctype
    /\ UNCHANGED <<bpc, metadata_file, failed_file>>
    /\ UNCHANGED <<skip_existing, dirs, download_history, successful, failed,
                   jattempt, jpath, jvalid, jgate>>
    /\ JobFrame

\* The retry wrapper calling download_file itself, past the limiter.
RetriedUngated == "check"

\* lines 221-226: retry_on_failure is the outer decorator, so the func its
\* wrapper calls on every attempt is the wrapper of rate_limited.
Retried == "gate"

\* time.sleep(wait_time) is over: the next attempt.
JobSleepDone(j) ==
    /\ jpc[j] = "sleep"
    /\ jattempt' = [jattempt EXCEPT ![j] = @ + 1]
    /\ jpc' = [jpc EXCEPT ![j] = Retried]
    /\ jexc' = [jexc EXCEPT ![j] = "none"]
    /\ UNCHANGED <<bpc, metadata_file, failed_file>>
    /\ UNCHANGED <<skip_existing, fs, dirs, download_history,
                   failed_downloads, successful, failed, jpath, jctype,
                   jvalid, jresult, jlog, jsleeps, jgate>>
    /\ JobFrame

\* The true type of what was written, and the rename to it.
JobDetect(j) ==
    /\ jpc[j] = "detect"
    /\ LET old == jpath[j]
           ext == DetectedExtension(jctype[j], fs[old])
           new == WithSuffix(old, ext)
           gone == [fs EXCEPT ![old] = NoFile]
       IN  IF ext # old.ext
           THEN IF fs[new].there
                THEN /\ fs' = gone
                     /\ jresult' = [jresult EXCEPT ![j] =
                            IF ValidateFile(gone, new)
                            THEN [kind |-> "path", path |-> new]
                            ELSE [kind |-> "None", path |-> NoPath]]
                     /\ jlog' = [jlog EXCEPT ![j] =
                            [@ EXCEPT ![Len(@)].did = "conflict"]]
                     /\ jpc' = [jpc EXCEPT ![j] = "returned"]
                     /\ UNCHANGED jpath
                ELSE /\ fs' = [gone EXCEPT ![new] = fs[old]]
                     /\ jpath' = [jpath EXCEPT ![j] = new]
                     /\ jpc' = [jpc EXCEPT ![j] = "validate"]
                     /\ UNCHANGED <<jresult, jlog>>
           ELSE /\ jpc' = [jpc EXCEPT ![j] = "validate"]
                /\ UNCHANGED <<fs, jpath, jresult, jlog>>
    /\ UNCHANGED <<jexc, bpc, metadata_file, failed_file>>
    /\ UNCHANGED <<skip_existing, dirs, download_history, failed_downloads,
                   successful, failed, jattempt, jctype, jvalid, jsleeps,
                   jgate>>
    /\ JobFrame

\* validate_file on the final path; a rejected file is deleted.
JobValidate(j) ==
    /\ jpc[j] = "validate"
    /\ LET ok == ValidateFile(fs, jpath[j])
       IN  IF Rejected(ok)
           THEN /\ fs' = [fs EXCEPT ![jpath[j]] = NoFile]
                /\ jresult' = [jresult EXCEPT
                                  ![j] = [kind |-> "None", path |-> NoPath]]
                /\ jpc' = [jpc EXCEPT ![j] = "returned"]
                /\ UNCHANGED jvalid
           ELSE /\ jvalid' = [jvalid EXCEPT
                                 ![j] = IF ok THEN jpath[j] ELSE NoPath]
                /\ jpc' = [jpc EXCEPT ![j] = "record"]
                /\ UNCHANGED <<fs, jresult>>
    /\ UNCHANGED <<jexc, bpc, metadata_file, failed_file>>
    /\ UNCHANGED <<skip_existing, dirs, download_history, failed_downloads,
                   successful, failed, jattempt, jpath, jctype, jlog,
                   jsleeps, jgate>>
    /\ JobFrame

\* The record put in front of the history.
AddRecordFirst(history, download_record) == <<download_record>> \o history

\* line 358: self.download_history.append(download_record)
AddRecord(history, download_record) == Append(history, download_record)

\* The download record, and the return of a file that is no archive.
JobRecord(j) ==
    /\ jpc[j] = "record"
    /\ download_history' =
           AddRecord(download_history, [url |-> j, filepath |-> jpath[j]])
    /\ IF jpath[j].ext = ".zip"
       THEN /\ jpc' = [jpc EXCEPT ![j] = "extract"]
            /\ UNCHANGED jresult
       ELSE /\ jresult' = [jresult EXCEPT
                              ![j] = [kind |-> "path", path |-> jpath[j]]]
            /\ jpc' = [jpc EXCEPT ![j] = "returned"]
    /\ UNCHANGED <<jexc, bpc, metadata_file, failed_file>>
    /\ UNCHANGED <<skip_existing, fs, dirs, failed_downloads, successful,
                   failed, jattempt, jpath, jctype, jvalid, jlog, jsleeps,
                   jgate>>
    /\ JobFrame

\* The result of extract_zip_file made the result of download_file.
AfterExtractStrict(p, extracted) ==
    IF extracted THEN [kind |-> "path", path |-> p]
    ELSE [kind |-> "None", path |-> NoPath]

\* lines 363-366: the value of extract_zip_file is dropped and output_path
\* returned.
AfterExtract(p, extracted) == [kind |-> "path", path |-> p]

\* extract_zip_file: the folder is made, or the failure is logged; the
\* path is returned either way.
JobExtract(j) ==
    /\ jpc[j] = "extract"
    /\ \E extracted \in BOOLEAN :
         /\ dirs' = IF extracted THEN dirs \cup {jpath[j].stem} ELSE dirs
         /\ jresult' = [jresult EXCEPT
                           ![j] = AfterExtract(jpath[j], extracted)]
    /\ jpc' = [jpc EXCEPT ![j] = "returned"]
    /\ UNCHANGED <<jexc, bpc, metadata_file, failed_file>>
    /\ UNCHANGED <<skip_existing, fs, download_history, failed_downloads,
                   successful, failed, jattempt, jpath, jctype, jvalid,
                   jlog, jsleeps, jgate>>
    /\ JobFrame

\* `result = future.result()` gave a path: no None, no exception.
IsSuccessAlways(res) == TRUE

IsSuccess(res) == res.kind = "path"

\* as_completed hands a finished future to the loop of batch_download.
BatchCollect(j) ==
    /\ jpc[j] \in {"returned", "raised"}
    /\ IF IsSuccess(jresult[j])
       THEN /\ successful' = Append(successful, jresult[j].path)
            /\ UNCHANGED failed
       ELSE /\ failed' = Append(failed, j)
            /\ UNCHANGED successful
    /\ jpc' = [jpc EXCEPT ![j] = "collected"]
    /\ jexc' = [jexc EXCEPT ![j] = "none"]
    /\ UNCHANGED <<bpc, metadata_file, failed_file>>
    /\ UNCHANGED <<skip_existing, fs, dirs, download_history,
                   failed_downloads, jattempt, jpath, jctype, jvalid,
                   jresult, jlog, jsleeps, jgate>>
    /\ JobFrame

\* The pool is drained: batch_download returns its two lists.
BatchReturn ==
    /\ bpc = "pool"
    /\ \A j \in Jobs : jpc[j] = "collected"
    /\ bpc' = "returned"
    /\ UNCHANGED <<jexc, metadata_file, failed_file>>
    /\ UNCHANGED <<skip_existing, fs, dirs, download_history,
                   failed_downloads, successful, failed, jpc, jattempt,
                   jpath, jctype, jvalid, jresult, jlog, jsleeps, jgate>>
    /\ JobFrame

\* downloader.save_metadata(): the history is dumped, empty or not.
SaveMetadata ==
    /\ bpc = "returned"
    /\ metadata_file' = Saved(download_history)
    /\ bpc' = "metadata_saved"
    /\ UNCHANGED <<jexc, failed_file>>
    /\ UNCHANGED <<skip_existing, fs, dirs, download_history,
                   failed_downloads, successful, failed, jpc, jattempt,
                   jpath, jctype, jvalid, jresult, jlog, jsleeps, jgate>>
    /\ JobFrame

\* `if not self.failed_downloads`
NothingToSaveNever(list) == FALSE

NothingToSave(list) == list = <<>>

\* `if results['failed']: downloader.save_failed_downloads()`
SaveFailedDownloads ==
    /\ bpc = "metadata_saved"
    /\ IF failed # <<>> /\ ~NothingToSave(failed_downloads)
       THEN failed_file' = Saved(failed_downloads)
       ELSE UNCHANGED failed_file
    /\ bpc' = "done"
    /\ UNCHANGED <<jexc, metadata_file>>
    /\ UNCHANGED <<skip_existing, fs, dirs, download_history,
                   failed_downloads, successful, failed, jpc, jattempt,
                   jpath, jctype, jvalid, jresult, jlog, jsleeps, jgate>>
    /\ JobFrame

JobStep(j) ==
    \/ JobStart(j)
    \/ JobGate(j)
    \/ JobCheck(j)
    \/ JobFetch(j)
    \/ JobSleepDone(j)
    \/ JobDetect(j)
    \/ JobValidate(j)
    \/ JobRecord(j)
    \/ JobExtract(j)
    \/ BatchCollect(j)

JobNext ==
    \/ \E j \in Jobs : JobStep(j)
    \/ BatchReturn
    \/ SaveMetadata
    \/ SaveFailedDownloads

-----------------------------------------------------------------------------
(***************************************************************************)
(* download_file, lines 306-325: the true type of the written file         *)
(***************************************************************************)

\* The Content-Type values tried ('unknown' stands for an absent header,
\* line 290) and the leading bytes a written file may have.
DeclaredTypes == ContentTypes \cup {"application/octet-stream"}
LeadingBytes == {"%PDF", "PK", "", "GIF8", "<htm", "Rar!"}

\* magic_bytes before the file is read, if it ever is.
Unread == "unread"

\* The sniff made whatever the content type gave.
SniffsAlways(ext_from_content_type) == TRUE

\* line 315: if ext_from_content_type is None
Sniffs(ext_from_content_type) == ext_from_content_type = "none"

\* line 324: detected_extension = '.bin' when the file cannot be read
UnreadableExtension == ".bin"

\* The detection has not been called.
DetectIdle ==
    /\ tpc = "off"
    /\ content_type = ""
    /\ leading = ""
    /\ readable = FALSE
    /\ magic_bytes = Unread
    /\ detected_extension = "none"

\* line 307: detected_extension = None, for a response header and a file
\* just written.
DetectInit ==
    /\ tpc = "map"
    /\ content_type \in DeclaredTypes
    /\ leading \in LeadingBytes
    /\ readable \in BOOLEAN
    /\ magic_bytes = Unread
    /\ detected_extension = "none"

\* lines 309-315: the extension of the content type, taken when there is
\* one; the sniff follows only when there is none.
DetectFromContentType ==
    /\ DetectFrame
    /\ tpc = "map"
    /\ LET ext_from_content_type == ExtensionFromContentType(content_type)
       IN  /\ detected_extension' =
                  IF ext_from_content_type # "none"
                  THEN ext_from_content_type
                  ELSE detected_extension
           /\ tpc' = IF Sniffs(ext_from_content_type) THEN "sniff" ELSE "done"
    /\ UNCHANGED <<content_type, leading, readable, magic_bytes>>

\* lines 316-324: the first bytes are read and looked up; a file that
\* cannot be read gives '.bin'.
DetectFromMagicBytes ==
    /\ DetectFrame
    /\ tpc = "sniff"
    /\ IF readable
       THEN /\ magic_bytes' = leading
            /\ detected_extension' = DetectFileTypeFromContent(leading)
       ELSE /\ detected_extension' = UnreadableExtension
            /\ UNCHANGED magic_bytes
    /\ tpc' = "done"
    /\ UNCHANGED <<content_type, leading, readable>>

DetectNext ==
    \/ DetectFromContentType
    \/ DetectFromMagicBytes

-----------------------------------------------------------------------------
(***************************************************************************)
(* FileDownloader.validate_file (downloader.py, lines 119-207), one call,  *)
(* statement by statement                                                   *)
(***************************************************************************)

PDF_MAGIC_BYTES == "%PDF"

\* filepath.suffix.lower() of the files tried: the formats validate_file
\* names, one it does not, and a name with no suffix.
Suffixes == {".pdf", ".zip", ".doc", ".docx", ".odt", ".bin", ".txt", ""}

\* Sizes on both sides of every threshold of the function.
Sizes ==
    {0, MinFileSize - 1, MinFileSize, MinFileSize + 1, MinDocSize,
     MinDocSize + 1, MIN_PDF_SIZE - 1, MIN_PDF_SIZE, 20000}

\* The first len(PDF_MAGIC_BYTES) bytes a file may start with.
Headers == {PDF_MAGIC_BYTES, "PK", "<htm", ""}

\* No test of the header at all.
StartsWithAnything(h) == TRUE

\* line 157: header.startswith(PDF_MAGIC_BYTES), header being that long
StartsWithMagic(h) == h = PDF_MAGIC_BYTES

\* validate_file has not been called.
FileIdle ==
    /\ fpc = "off"
    /\ suffix = ""
    /\ exists = FALSE
    /\ st_size = 0
    /\ header = ""
    /\ is_zipfile = FALSE
    /\ is_valid = "none"

\* A call of validate_file on a path: nothing is there, or a file of some
\* size and content; an empty file has no bytes to start with.
FileInit ==
    /\ fpc = "exists"
    /\ suffix \in Suffixes
    /\ exists \in BOOLEAN
    /\ st_size \in Sizes
    /\ header \in Headers
    /\ is_zipfile \in BOOLEAN
    /\ ~exists => st_size = 0
    /\ st_size = 0 => header = "" /\ ~is_zipfile
    /\ is_valid = "none"

FileReturn(v) ==
    /\ is_valid' = (IF v THEN "True" ELSE "False")
    /\ fpc' = "done"

\* lines 137-139: if not filepath.exists(): return False
FileExists ==
    /\ FileFrame
    /\ fpc = "exists"
    /\ IF ~exists THEN FileReturn(FALSE)
       ELSE fpc' = "size" /\ UNCHANGED is_valid
    /\ UNCHANGED <<suffix, exists, st_size, header, is_zipfile>>

\* lines 141-146: the floor of every file, then the branch on the suffix
FileSizeFloor ==
    /\ FileFrame
    /\ fpc = "size"
    /\ IF st_size < MinFileSize THEN FileReturn(FALSE)
       ELSE fpc' = "branch" /\ UNCHANGED is_valid
    /\ UNCHANGED <<suffix, exists, st_size, header, is_zipfile>>

\* lines 149-162 and 205-207: the floor of a PDF and its first bytes; an
\* error while opening or reading gives False.
FilePdf ==
    /\ FileFrame
    /\ fpc = "branch"
    /\ suffix = ".pdf"
    /\ IF st_size < MIN_PDF_SIZE THEN FileReturn(FALSE)
       ELSE \E raised \in BOOLEAN :
              FileReturn(~raised /\ StartsWithMagic(header))
    /\ UNCHANGED <<suffix, exists, st_size, header, is_zipfile>>

\* lines 164-171: zipfile.is_zipfile(filepath)
FileZip ==
    /\ FileFrame
    /\ fpc = "branch"
    /\ suffix = ".zip"
    /\ FileReturn(is_zipfile)
    /\ UNCHANGED <<suffix, exists, st_size, header, is_zipfile>>

\* lines 173-189: DOCX and ODT as archives, DOC by its size
FileOffice ==
    /\ FileFrame
    /\ fpc = "branch"
    /\ suffix \in {".doc", ".docx", ".odt"}
    /\ IF suffix \in {".docx", ".odt"} THEN FileReturn(is_zipfile)
       ELSE FileReturn(st_size > MinDocSize)
    /\ UNCHANGED <<suffix, exists, st_size, header, is_zipfile>>

\* lines 191-198: is_valid = filepath.stat().st_size > 100
FileBin ==
    /\ FileFrame
    /\ fpc = "branch"
    /\ suffix = ".bin"
    /\ FileReturn(st_size > MinFileSize)
    /\ UNCHANGED <<suffix, exists, st_size, header, is_zipfile>>

\* lines 200-203: any other suffix
FileUnknown ==
    /\ FileFrame
    /\ fpc = "branch"
    /\ suffix \notin {".pdf", ".zip", ".doc", ".docx", ".odt", ".bin"}
    /\ FileReturn(TRUE)
    /\ UNCHANGED <<suffix, exists, st_size, header, is_zipfile>>

FileNext ==
    \/ FileExists
    \/ FileSizeFloor
    \/ FilePdf
    \/ FileZip
    \/ FileOffice
    \/ FileBin
    \/ FileUnknown

-----------------------------------------------------------------------------
(***************************************************************************)
(* The normalizers of src/src/enums.py.                                    *)
(*                                                                         *)
(* A text is the sequence of its characters.  A regular expression of the  *)
(* source is the set of the literals it can match, each with the word      *)
(* boundaries (\b) it asks for on its left and on its right; re.search     *)
(* succeeds when one of them occurs somewhere in the text.  An enum member *)
(* is the string of its name, and None is "None".                          *)
(***************************************************************************)
Digits == {"0", "1", "2", "3", "4", "5", "6", "7", "8", "9"}
LowerLetters ==
    {"a", "b", "c", "d", "e", "f", "g", "h", "i", "j", "k", "l", "m", "n",
     "o", "p", "q", "r", "s", "t", "u", "v", "w", "x", "y", "z", "é", "è",
     "ç"}
LowerOf ==
    "A" :> "a" @@ "B" :> "b" @@ "C" :> "c" @@ "D" :> "d" @@ "E" :> "e" @@
    "F" :> "f" @@ "G" :> "g" @@ "H" :> "h" @@ "I" :> "i" @@ "J" :> "j" @@
    "K" :> "k" @@ "L" :> "l" @@ "M" :> "m" @@ "N" :> "n" @@ "O" :> "o" @@
    "P" :> "p" @@ "Q" :> "q" @@ "R" :> "r" @@ "S" :> "s" @@ "T" :> "t" @@
    "U" :> "u" @@ "V" :> "v" @@ "W" :> "w" @@ "X" :> "x" @@ "Y" :> "y" @@
    "Z" :> "z" @@ "É" :> "é" @@ "È" :> "è" @@ "Ç" :> "ç"
Spaces == {" ", "\t"}

\* \w of the re module: a letter, a digit or the underscore.
IsWordChar(c) ==
    c \in LowerLetters \cup DOMAIN LowerOf \cup Digits \cup {"_"}

\* str.lower()
Lower(t) ==
    [i \in 1..Len(t) |-> IF t[i] \in DOMAIN LowerOf THEN LowerOf[t[i]] ELSE t[i]]

\* str.strip()
Strip(t) ==
    LET inked == {i \in 1..Len(t) : t[i] \notin Spaces}
    IN  IF inked = {} THEN <<>>
        ELSE SubSeq(t, CHOOSE i \in inked : \A k \in inked : i <= k,
                       CHOOSE i \in inked : \A k \in inked : i >= k)

\* re.sub(r"\s+", " ", key)
RECURSIVE CollapseSpaces(_)
CollapseSpaces(t) ==
    IF t = <<>> THEN <<>>
    ELSE IF Head(t) \in Spaces
         THEN IF Len(t) > 1 /\ t[2] \in Spaces
              THEN CollapseSpaces(Tail(t))
              ELSE <<" ">> \o CollapseSpaces(Tail(t))
         ELSE <<Head(t)>> \o CollapseSpaces(Tail(t))

OccursAt(t, i, lit) ==
    /\ i + Len(lit) - 1 <= Len(t)
    /\ SubSeq(t, i, i + Len(lit) - 1) = lit

\* `lit in t`
Contains(t, lit) == \E i \in 1..Len(t) : OccursAt(t, i, lit)

\* \b just before position k of t.
IsWordAt(t, k) == k \in 1..Len(t) /\ IsWordChar(t[k])
Boundary(t, k) == IsWordAt(t, k - 1) # IsWordAt(t, k)

Word(lit) == [lit |-> lit, lb |-> TRUE, rb |-> TRUE]
Part(lit) == [lit |-> lit, lb |-> FALSE, rb |-> FALSE]
WordStart(lit) == [lit |-> lit, lb |-> TRUE, rb |-> FALSE]
WordEnd(lit) == [lit |-> lit, lb |-> FALSE, rb |-> TRUE]

\* re.search(pattern, t) is not None
Search(t, pattern) ==
    \E p \in pattern, i \in 1..Len(t) :
        /\ OccursAt(t, i, p.lit)
        /\ p.lb => Boundary(t, i)
        /\ p.rb => Boundary(t, i + Len(p.lit))

\* ---- normalize_localisation ----
LOCALISATION_MAP ==
    <<"a","m","é","r","i","q","u","e"," ","d","u"," ","n","o","r",
            "d">> :> "AM_NORTH" @@
    <<"a","m","e","r","i","q","u","e"," ","d","u"," ","n","o","r",
            "d">> :> "AM_NORTH" @@
    <<"a","m","é","r","i","q","u","e"," ","d","u"," ","s","u",
            "d">> :> "AM_SOUTH" @@
    <<"a","m","e","r","i","q","u","e"," ","d","u"," ","s","u",
            "d">> :> "AM_SOUTH" @@
    <<"a","n","t","i","l","l","e","s",","," ","g","u","y","a","n",
            "e">> :> "ANTIL_GUY" @@
    <<"a","n","t","i","l","l","e","s"," ",","," ","g","u","y","a","n",
            "e">> :> "ANTIL_GUY" @@
    <<"a","n","t","i","l","l","e","s"," ","g","u","y","a","n",
            "e">> :> "ANTIL_GUY" @@
    <<"a","s","i","e">> :> "ASIA" @@
    <<"l","i","b","a","n">> :> "LIBAN" @@
    <<"m","é","t","r","o","p","o","l","e">> :> "METROPOLE" @@
    <<"m","e","t","r","o","p","o","l","e">> :> "METROPOLE" @@
    <<"m","é","t","r","o","p","o","l","e"," ","e","t"," ","a","n","t","i","l",
            "l","e","s","-","g","u","y","a","n","e">> :> "METRO_ANTIL_GUY" @@
    <<"m","e","t","r","o","p","o","l","e"," ","e","t"," ","a","n","t","i","l",
            "l","e","s","-","g","u","y","a","n","e">> :> "METRO_ANTIL_GUY" @@
    <<"n","o","u","v","e","l","l","e","-","c","a","l","é","d","o","n","i",
            "e">> :> "NOUVELLE_CAL" @@
    <<"n","o","u","v","e","l","l","e"," ","c","a","l","e","d","o","n","i",
            "e">> :> "NOUVELLE_CAL" @@
    <<"g","r","o","u","p","e"," ","1">> :> "GROUPE_1" @@
    <<"p","o","l","y","n","é","s","i","e">> :> "POLYNESIE" @@
    <<"p","o","l","y","n","e","s","i","e">> :> "POLYNESIE" @@
    <<"p","o","n","d","i","c","h","é","r","y">> :> "PONDICHERY" @@
    <<"p","o","n","d","i","c","h","e","r","y">> :> "PONDICHERY"

LocalisationRe ==
    \* am[ée]rique\s+du\s+nord
    [ AmNorth |->
        {Part(<<"a","m","é","r","i","q","u","e"," ","d","u"," ","n","o",
        "r","d">>), Part(<<"a","m","e","r","i","q","u","e"," ","d","u"," ",
        "n","o","r","d">>)}
    \* am[ée]rique\s+du\s+sud
    , AmSouth |->
        {Part(<<"a","m","é","r","i","q","u","e"," ","d","u"," ","s","u",
        "d">>), Part(<<"a","m","e","r","i","q","u","e"," ","d","u"," ","s",
        "u","d">>)}
    \* antilles\s*,?\s*guyane
    , AntilGuy |->
        {Part(<<"a","n","t","i","l","l","e","s","g","u","y","a","n","e">>),
        Part(<<"a","n","t","i","l","l","e","s"," ","g","u","y","a","n",
        "e">>),
        Part(<<"a","n","t","i","l","l","e","s",",","g","u","y","a","n","e">>),
        Part(<<"a","n","t","i","l","l","e","s"," ",",","g","u","y","a",
        "n","e">>),
        Part(<<"a","n","t","i","l","l","e","s",","," ","g","u","y","a","n",
        "e">>), Part(<<"a","n","t","i","l","l","e","s"," ",","," ","g",
        "u","y","a","n","e">>)}
    \* m[ée]tropole\s+et\s+antilles[- ]guyane
    , MetroAntilGuy |->
        {Part(<<"m","é","t","r","o","p","o","l","e"," ","e","t"," ","a","n","t",
        "i","l","l","e","s","-","g","u","y","a","n","e">>),
        Part(<<"m","e","t","r","o","p","o","l","e"," ","e","t"," ","a","n","t",
        "i","l","l","e","s","-","g","u","y","a","n","e">>),
        Part(<<"m","é","t","r","o","p","o","l","e"," ","e","t"," ","a","n","t",
        "i","l","l","e","s"," ","g","u","y","a","n","e">>),
        Part(<<"m","e","t","r","o","p","o","l","e"," ","e","t"," ","a","n","t",
        "i","l","l","e","s"," ","g","u","y","a","n","e">>)}
    \* m[ée]tropole|metropole
    , Metropole |->
        {Part(<<"m","é","t","r","o","p","o","l","e">>), Part(<<"m","e",
        "t","r","o","p","o","l","e">>)}
    \* nouvelle[- ]cal[ée]donie
    , NouvelleCal |->
        {Part(<<"n","o","u","v","e","l","l","e","-","c","a","l","é","d","o","n",
        "i","e">>), Part(<<"n","o","u","v","e","l","l","e","-","c","a",
        "l","e","d","o","n","i","e">>),
        Part(<<"n","o","u","v","e","l","l","e"," ","c","a","l","é","d","o","n",
        "i","e">>), Part(<<"n","o","u","v","e","l","l","e"," ","c","a",
        "l","e","d","o","n","i","e">>)}
    \* polyn[ée]sie
    , Polynesie |->
        {Part(<<"p","o","l","y","n","é","s","i","e">>), Part(<<"p","o",
        "l","y","n","e","s","i","e">>)}
    \* pondich[ée]ry
    , Pondichery |->
        {Part(<<"p","o","n","d","i","c","h","é","r","y">>),
        Part(<<"p","o","n","d","i","c","h","e","r","y">>)}
    \* \bgroupe\s*1\b
    , Groupe1 |->
        {Word(<<"g","r","o","u","p","e","1">>), Word(<<"g","r","o","u",
        "p","e"," ","1">>)}
    \* \bliban\b
    , Liban |->
        {Word(<<"l","i","b","a","n">>)}
    \* \basie\b
    , Asie |->
        {Word(<<"a","s","i","e">>)}
    ]

normalize_localisation(text) ==
    IF text = <<>> THEN "None"
    ELSE LET key == Lower(Strip(text))
             t == CollapseSpaces(key)
         IN  IF key \in DOMAIN LOCALISATION_MAP THEN LOCALISATION_MAP[key]
             ELSE IF Search(t, LocalisationRe.AmNorth) THEN "AM_NORTH"
             ELSE IF Search(t, LocalisationRe.AmSouth) THEN "AM_SOUTH"
             ELSE IF Search(t, LocalisationRe.AntilGuy) THEN "ANTIL_GUY"
             ELSE IF Search(t, LocalisationRe.MetroAntilGuy) THEN "METRO_ANTIL_GUY"
             ELSE IF Search(t, LocalisationRe.Metropole) THEN "METROPOLE"
             ELSE IF Search(t, LocalisationRe.NouvelleCal) THEN "NOUVELLE_CAL"
             ELSE IF Search(t, LocalisationRe.Polynesie) THEN "POLYNESIE"
             ELSE IF Search(t, LocalisationRe.Pondichery) THEN "PONDICHERY"
             ELSE IF Search(t, LocalisationRe.Groupe1) THEN "GROUPE_1"
             ELSE IF Search(t, LocalisationRe.Liban) THEN "LIBAN"
             ELSE IF Search(t, LocalisationRe.Asie) THEN "ASIA"
             ELSE "None"

\* ---- normalize_session ----
NoText == [some |-> FALSE, text |-> <<>>]
Some(t) == [some |-> TRUE, text |-> t]

\* \b(20[0-9]{2})\b : the places where it matches.
YearPlaces(t) ==
    {i \in 1..Len(t) :
        /\ i + 3 <= Len(t)
        /\ t[i] = "2" /\ t[i + 1] = "0"
        /\ t[i + 2] \in Digits /\ t[i + 3] \in Digits
        /\ Boundary(t, i) /\ Boundary(t, i + 4)}

\* f"20{m2.group(1)}"
CenturyNineteen(dd) == <<"1", "9">> \o dd

CenturyTwenty(dd) == <<"2", "0">> \o dd

SessionYear(t) ==
    IF YearPlaces(t) # {}
    THEN LET i == CHOOSE i \in YearPlaces(t) : \A k \in YearPlaces(t) : i <= k
         IN  Some(SubSeq(t, i, i + 3))
    ELSE IF Len(t) >= 2 /\ t[1] \in Digits /\ t[2] \in Digits
         THEN Some(CenturyTwenty(SubSeq(t, 1, 2)))
         ELSE NoText

SessionRe ==
    \* \b(normal|normale|normales)\b
    [ Normal |->
        {Word(<<"n","o","r","m","a","l">>), Word(<<"n","o","r","m","a",
        "l","e">>), Word(<<"n","o","r","m","a","l","e","s">>)}
    \* \b(remplacement|septembre)\b
    , Remplacement |->
        {Word(<<"r","e","m","p","l","a","c","e","m","e","n","t">>),
        Word(<<"s","e","p","t","e","m","b","r","e">>)}
    ]

SessionKind(t) ==
    IF Search(t, SessionRe.Normal) THEN "NORMAL"
    ELSE IF Search(t, SessionRe.Remplacement) THEN "REMPLACEMENT"
    ELSE "None"

\* SessionType.value as text
SessionTypeValue(kind) ==
    IF kind = "NORMAL" THEN <<"N","O","R","M","A","L">> ELSE <<"R","E","M",
            "P","L","A","C","E","M","E","N","T">>

normalize_session(text) ==
    IF text = <<>> THEN [code |-> NoText, kind |-> "None"]
    ELSE LET t == Lower(Strip(text))
             year == SessionYear(t)
             session_kind == SessionKind(t)
         IN  IF year.some /\ session_kind # "None"
             THEN [code |-> Some(year.text \o <<"_">> \o
                                 SessionTypeValue(session_kind)),
                   kind |-> session_kind]
             ELSE [code |-> NoText, kind |-> session_kind]

SerieRe ==
    \* ---- normalize_serie ----
    \* \b(générale|generale|gen)\b
    [ Generale |->
        {Word(<<"g","é","n","é","r","a","l","e">>), Word(<<"g","e","n",
        "e","r","a","l","e">>), Word(<<"g","e","n">>)}
    \* \b(professionnelle|professionnel|pro)\b
    , Professionnelle |->
        {Word(<<"p","r","o","f","e","s","s","i","o","n","n","e","l","l","e">>),
        Word(<<"p","r","o","f","e","s","s","i","o","n","n","e","l">>),
        Word(<<"p","r","o">>)}
    \* \btoutes\b
    , Toutes |->
        {Word(<<"t","o","u","t","e","s">>)}
    ]

normalize_serie(text) ==
    IF text = <<>> THEN "None"
    ELSE LET t == Lower(Strip(text))
         IN  IF Search(t, SerieRe.Generale) THEN "GENERALE"
             ELSE IF Search(t, SerieRe.Professionnelle) THEN "PROFESSIONNELLE"
             ELSE IF Search(t, SerieRe.Toutes) THEN "TOUTES"
             ELSE "None"

DisciplineRe ==
    \* ---- normalize_discipline ----
    \* \bfrançais|francais\b
    [ FrancaisLoose |->
        {WordStart(<<"f","r","a","n","ç","a","i","s">>),
        WordEnd(<<"f","r","a","n","c","a","i","s">>)}
    \* \bdict[ée]e\b
    , Dictee |->
        {Word(<<"d","i","c","t","é","e">>), Word(<<"d","i","c","t","e",
        "e">>)}
    \* \bfran[çc]ais\b
    , Francais |->
        {Word(<<"f","r","a","n","ç","a","i","s">>), Word(<<"f","r","a",
        "n","c","a","i","s">>)}
    \* \b(grammaire|compr[ée]hension|questions?)\b
    , GramComp |->
        {Word(<<"g","r","a","m","m","a","i","r","e">>), Word(<<"c","o","m","p",
        "r","é","h","e","n","s","i","o","n">>), Word(<<"c","o","m","p",
        "r","e","h","e","n","s","i","o","n">>),
        Word(<<"q","u","e","s","t","i","o","n">>), Word(<<"q","u","e","s","t",
        "i","o","n","s">>)}
    \* \br[ée]daction\b
    , Redaction |->
        {Word(<<"r","é","d","a","c","t","i","o","n">>), Word(<<"r","e",
        "d","a","c","t","i","o","n">>)}
    \* histo(i)?re|g[ée]ographie|\bemc\b
    , HistGeoEmc |->
        {Part(<<"h","i","s","t","o","r","e">>), Part(<<"h","i","s","t","o","i",
        "r","e">>), Part(<<"g","é","o","g","r","a","p","h","i","e">>),
        Part(<<"g","e","o","g","r","a","p","h","i","e">>), Word(<<"e","m","c">>)}
    \* \bh[ée]breu\b
    , Hebreu |->
        {Word(<<"h","é","b","r","e","u">>), Word(<<"h","e","b","r","e",
        "u">>)}
    \* \bmath(ématiques|ematiques|s)?\b|\bmaths\b
    , Maths |->
        {Word(<<"m","a","t","h">>), Word(<<"m","a","t","h","é","m","a","t","i",
        "q","u","e","s">>), Word(<<"m","a","t","h","e","m","a","t","i",
        "q","u","e","s">>),
        Word(<<"m","a","t","h","s">>)}
    \* \bsciences?\b|\bsvt\b|physique|chimie|technologie
    , Sciences |->
        {Word(<<"s","c","i","e","n","c","e">>), Word(<<"s","c","i","e","n","c",
        "e","s">>), Word(<<"s","v","t">>),
        Part(<<"p","h","y","s","i","q","u","e">>), Part(<<"c","h","i","m","i",
        "e">>), Part(<<"t","e","c","h","n","o","l","o","g","i","e">>)}
    ]

normalize_discipline(text) ==
    IF text = <<>> THEN "None"
    ELSE LET t == Lower(Strip(text))
         IN  IF /\ Contains(t, <<"f","r","a","n">>) \/ Search(t,
                 DisciplineRe.FrancaisLoose)
                /\ Contains(t, <<"d","i","c","t">>) \/ Search(t, DisciplineRe.Dictee)
             THEN "FR_DICTEE"
             ELSE IF Search(t, DisciplineRe.Francais) /\ Search(t, DisciplineRe.GramComp)
             THEN "FR_GRAM_COMP"
             ELSE IF Search(t, DisciplineRe.Francais) /\ Search(t, DisciplineRe.Redaction)
             THEN "FR_REDACTION"
             ELSE IF Search(t, DisciplineRe.HistGeoEmc) THEN "HIST_GEO_EMC"
             ELSE IF Search(t, {Word(<<"a","l","l","e","m","a","n",
                     "d">>)}) THEN "LV_ALLEMAND"
             ELSE IF Search(t, {Word(<<"a","n","g","l","a","i",
                     "s">>)}) THEN "LV_ANGLAIS"
             ELSE IF Search(t, {Word(<<"a","r","a","b",
                     "e">>)}) THEN "LV_ARABE"
             ELSE IF Search(t, {Word(<<"c","h","i","n","o","i",
                     "s">>)}) THEN "LV_CHINOIS"
             ELSE IF Search(t, {Word(<<"e","s","p","a","g","n","o",
                     "l">>)}) THEN "LV_ESPAGNOL"
             ELSE IF Search(t, {Word(<<"g","r","e","c">>)}) THEN "LV_GREC"
             ELSE IF Search(t, DisciplineRe.Hebreu) THEN "LV_HEBREU"
             ELSE IF Search(t, {Word(<<"i","t","a","l","i","e",
                     "n">>)}) THEN "LV_ITALIEN"
             ELSE IF Search(t, {Word(<<"j","a","p","o","n","a","i",
                     "s">>)}) THEN "LV_JAPONAIS"
             ELSE IF Search(t, {Word(<<"p","o","r","t","u","g","a","i",
                     "s">>)}) THEN "LV_PORTUGAIS"
             ELSE IF Search(t, {Word(<<"r","u","s","s",
                     "e">>)}) THEN "LV_RUSSE"
             ELSE IF Search(t, {Word(<<"t","u","r","c">>)}) THEN "LV_TURC"
             ELSE IF Search(t, DisciplineRe.Maths) THEN "MATHS"
             ELSE IF Search(t, DisciplineRe.Sciences) THEN "SCIENCES"
             ELSE "None"

\* ---- the closed enumerations, each code with its value as text ----
Localisation ==
    {[name |-> "AM_NORTH", value |-> <<"A","M","_","N","O","R","T","H">>],
     [name |-> "AM_SOUTH", value |-> <<"A","M","_","S","O","U","T","H">>],
     [name |-> "ANTIL_GUY", value |-> <<"A","N","T","I","L","_","G","U",
             "Y">>],
     [name |-> "ASIA", value |-> <<"A","S","I","A">>],
     [name |-> "LIBAN", value |-> <<"L","I","B","A","N">>],
     [name |-> "METROPOLE", value |-> <<"M","E","T","R","O","P","O","L",
             "E">>],
     [name |-> "METRO_ANTIL_GUY", value |-> <<"M","E","T","R","O","_","A","N",
             "T","I","L","_","G","U","Y">>],
     [name |-> "NOUVELLE_CAL", value |-> <<"N","O","U","V","E","L","L","E",
             "_","C","A","L">>],
     [name |-> "GROUPE_1", value |-> <<"G","R","O","U","P","E","_","1">>],
     [name |-> "POLYNESIE", value |-> <<"P","O","L","Y","N","E","S","I",
             "E">>],
     [name |-> "PONDICHERY", value |-> <<"P","O","N","D","I","C","H","E","R",
             "Y">>]}
SessionType ==
    {[name |-> "NORMAL", value |-> <<"N","O","R","M","A","L">>],
     [name |-> "REMPLACEMENT", value |-> <<"R","E","M","P","L","A","C","E",
             "M","E","N","T">>]}
Serie ==
    {[name |-> "GENERALE", value |-> <<"G","E","N","E","R","A","L","E">>],
     [name |-> "PROFESSIONNELLE", value |-> <<"P","R","O","F","E","S","S","I",
             "O","N","N","E","L","L","E">>],
     [name |-> "TOUTES", value |-> <<"T","O","U","T","E","S">>]}
Discipline ==
    {[name |-> "FR_DICTEE", value |-> <<"F","R","_","D","I","C","T","E",
            "E">>],
     [name |-> "FR_GRAM_COMP", value |-> <<"F","R","_","G","R","A","M","_",
             "C","O","M","P">>],
     [name |-> "FR_REDACTION", value |-> <<"F","R","_","R","E","D","A","C",
             "T","I","O","N">>],
     [name |-> "HIST_GEO_EMC", value |-> <<"H","I","S","T","_","G","E","O",
             "_","E","M","C">>],
     [name |-> "LV_ALLEMAND", value |-> <<"L","V","_","A","L","L","E","M","A",
             "N","D">>],
     [name |-> "LV_ANGLAIS", value |-> <<"L","V","_","A","N","G","L","A","I",
             "S">>],
     [name |-> "LV_ARABE", value |-> <<"L","V","_","A","R","A","B","E">>],
     [name |-> "LV_CHINOIS", value |-> <<"L","V","_","C","H","I","N","O","I",
             "S">>],
     [name |-> "LV_ESPAGNOL", value |-> <<"L","V","_","E","S","P","A","G","N",
             "O","L">>],
     [name |-> "LV_GREC", value |-> <<"L","V","_","G","R","E","C">>],
     [name |-> "LV_HEBREU", value |-> <<"L","V","_","H","E","B","R","E",
             "U">>],
     [name |-> "LV_ITALIEN", value |-> <<"L","V","_","I","T","A","L","I","E",
             "N">>],
     [name |-> "LV_JAPONAIS", value |-> <<"L","V","_","J","A","P","O","N","A",
             "I","S">>],
     [name |-> "LV_PORTUGAIS", value |-> <<"L","V","_","P","O","R","T","U",
             "G","A","I","S">>],
     [name |-> "LV_RUSSE", value |-> <<"L","V","_","R","U","S","S","E">>],
     [name |-> "LV_TURC", value |-> <<"L","V","_","T","U","R","C">>],
     [name |-> "MATHS", value |-> <<"M","A","T","H","S">>],
     [name |-> "SCIENCES", value |-> <<"S","C","I","E","N","C","E","S">>]}

\* The combined session codes of two years.
SessionCodes ==
    {<<"2","0","2","4","_","N","O","R","M","A","L">>, <<"2","0","2","4","_",
            "R","E","M","P","L","A","C","E","M","E","N","T">>, <<"2","0","1",
                    "9","_","N","O","R","M","A","L">>,
     <<"2","0","1","9","_","R","E","M","P","L","A","C","E","M","E","N","T">>}

\* ---- the texts the normalizers are tried on ----
TxNormales2024 == <<"2","0","2","4"," ","-"," ","é","p","r","e","u","v","e",
        "s"," ","n","o","r","m","a","l","e","s">>
TxRemplacement24 == <<"2","4"," ","r","e","m","p","l","a","c","e","m","e","n",
        "t">>
TxEmpty == <<>>
TxYearOnly == <<"2","0","2","4">>
TxKindOnly == <<"é","p","r","e","u","v","e","s"," ","d","e"," ","r","e","m",
        "p","l","a","c","e","m","e","n","t">>
TxNeither == <<"é","p","r","e","u","v","e","s">>
ScrapedTexts ==
    {TxNormales2024, TxRemplacement24, TxEmpty, TxYearOnly, TxKindOnly,
     TxNeither, <<"S","e","s","s","i","o","n"," ","n","o","r","m","a","l","e",
             " ","2","0","2","3">>, <<"S","e","p","t","e","m","b","r","e"," ",
                     "2","0","2","2">>, <<" "," ">>,
     <<"M","é","t","r","o","p","o","l","e">>, <<"A","m","é","r","i","q","u",
             "e"," ","d","u"," ","N","o","r","d">>, <<"A","n","t","i","l","l",
                     "e","s"," ",","," "," ","G","u","y","a","n","e">>,
     <<"C","e","n","t","r","e","s"," ","é","t","r","a","n","g","e","r","s",
             " ","g","r","o","u","p","e"," ","1">>, <<"P","o","l","y","n","é",
                     "s","i","e">>, <<"A","s","i","e">>, <<"W","a","l","l",
                             "i","s">>,
     <<"S","é","r","i","e"," ","g","é","n","é","r","a","l","e">>, <<"S","é",
             "r","i","e"," ","p","r","o","f","e","s","s","i","o","n","n","e",
                     "l","l","e">>, <<"T","o","u","t","e","s">>,
     <<"F","r","a","n","ç","a","i","s"," ","-"," ","d","i","c","t","é","e">>,
             <<"F","r","a","n","ç","a","i","s"," ","-"," ","r","é","d","a",
                     "c","t","i","o","n">>,
     <<"F","r","a","n","ç","a","i","s"," ","-"," ","g","r","a","m","m","a",
             "i","r","e"," ","e","t"," ","c","o","m","p","r","é","h","e","n",
                     "s","i","o","n">>,
     <<"H","i","s","t","o","i","r","e","-","g","é","o","g","r","a","p","h",
             "i","e"," ","E","M","C">>, <<"M","a","t","h","é","m","a","t","i",
                     "q","u","e","s">>, <<"L","V"," ","A","n","g","l","a","i",
                             "s">>,
     <<"S","c","i","e","n","c","e","s">>, <<"P","h","y","s","i","q","u","e",
             "-","c","h","i","m","i","e">>}
Texts ==
    ScrapedTexts \cup SessionCodes
        \cup {c.value : c \in Localisation \cup Serie \cup Discipline}
Normalizers == {"localisation", "session", "serie", "discipline"}

NormIdle ==
    /\ npc = "off"
    /\ nfun = "none"
    /\ ntext = <<>>
    /\ nout = [code |-> NoText, kind |-> "None"]

NormInit ==
    /\ npc = "call"
    /\ nfun \in Normalizers
    /\ ntext \in Texts
    /\ nout = [code |-> NoText, kind |-> "None"]

\* An enum member or None as a result: the member's value as the code.
Member(enum, name) ==
    IF name = "None" THEN [code |-> NoText, kind |-> "None"]
    ELSE [code |-> Some((CHOOSE c \in enum : c.name = name).value),
          kind |-> "None"]

NormalizeLocalisation ==
    /\ npc = "call" /\ nfun = "localisation"
    /\ nout' = Member(Localisation, normalize_localisation(ntext))
    /\ npc' = "done"
    /\ UNCHANGED <<nfun, ntext>>
    /\ NormFrame

NormalizeSession ==
    /\ npc = "call" /\ nfun = "session"
    /\ nout' = normalize_session(ntext)
    /\ npc' = "done"
    /\ UNCHANGED <<nfun, ntext>>
    /\ NormFrame

NormalizeSerie ==
    /\ npc = "call" /\ nfun = "serie"
    /\ nout' = Member(Serie, normalize_serie(ntext))
    /\ npc' = "done"
    /\ UNCHANGED <<nfun, ntext>>
    /\ NormFrame

NormalizeDiscipline ==
    /\ npc = "call" /\ nfun = "discipline"
    /\ nout' = Member(Discipline, normalize_discipline(ntext))
    /\ npc' = "done"
    /\ UNCHANGED <<nfun, ntext>>
    /\ NormFrame

NormNext ==
    \/ NormalizeLocalisation
    \/ NormalizeSession
    \/ NormalizeSerie
    \/ NormalizeDiscipline

-----------------------------------------------------------------------------
(***************************************************************************)
(* run_validation (src/main.py, lines 216-244): the traversal of the pages *)
(* that collects the distinct values                                       *)
(***************************************************************************)

\* page_num is followed up to this value.
MaxPageNum == 103

\* What _click_next_page gives its caller (scraper.py, lines 245-310).
ClickResults == {"True", "False"}

\* run_validation has not been called.
TraverseIdle ==
    /\ upc = "off"
    /\ page_num = 0

\* lines 213-224: inside the with block, before the driver is made.
TraverseInit ==
    /\ upc = "open"
    /\ page_num = 0

\* lines 226-235: _init_driver, driver.get, the wait for the table body,
\* then page_num = 1; an error of any of them leaves the function.
TraverseOpen ==
    /\ TraverseFrame
    /\ upc = "open"
    /\ \E ok \in BOOLEAN :
         IF ok THEN upc' = "page" /\ page_num' = 1
               ELSE upc' = "error" /\ UNCHANGED page_num

\* lines 236-239: the values of the current page are added.
TraverseExtract ==
    /\ TraverseFrame
    /\ upc = "page"
    /\ \E ok \in BOOLEAN : upc' = (IF ok THEN "click" ELSE "error")
    /\ UNCHANGED page_num

\* lines 240-242: if not scraper._click_next_page(): break; page_num += 1
TraverseClick ==
    /\ TraverseFrame
    /\ upc = "click"
    /\ \E result \in ClickResults :
         IF result = "False"
         THEN upc' = "close" /\ UNCHANGED page_num
         ELSE /\ page_num < MaxPageNum
              /\ page_num' = page_num + 1
              /\ upc' = "page"

\* line 244: scraper.close()
TraverseClose ==
    /\ TraverseFrame
    /\ upc = "close"
    /\ upc' = "closed"
    /\ UNCHANGED page_num

TraverseNext ==
    \/ TraverseOpen
    \/ TraverseExtract
    \/ TraverseClick
    \/ TraverseClose

-----------------------------------------------------------------------------
(***************************************************************************)
(* run_validation (src/main.py) from the end of its crawl: the distinct    *)
(* values of the five columns are in all_values, and each column is        *)
(* validated in turn, its values in sorted order.                          *)
(***************************************************************************)
Columns == {"Localisation", "Session", "Discipline", "Serie", "TypeDocument"}

\* The values a crawl may have found in each column, in sorted order.
Detected ==
    [Localisation |-> <<<<"M","é","t","r","o","p","o","l","e">>, <<"W","a",
            "l","l","i","s">>>>,
     Session |-> <<<<"2","0","2","4">>, <<"2","0","2","4"," ","-"," ","é","p",
             "r","e","u","v","e","s"," ","n","o","r","m","a","l","e","s">>>>,
     Discipline |-> <<<<"M","a","t","h","é","m","a","t","i","q","u","e","s">>,
             <<"P","h","i","l","o","s","o","p","h","i","e">>>>,
     Serie |-> <<<<"S","é","r","i","e"," ","g","é","n","é","r","a","l","e">>,
             <<"S","é","r","i","e"," ","t","e","c","h","n","o","l","o","g",
                     "i","q","u","e">>>>,
     TypeDocument |-> <<<<"c","o","r","r","e","c","t","i","o","n">>, <<"s",
             "u","j","e","t">>>>]
Range(s) == {s[i] : i \in 1..Len(s)}

\* The member for 'sujet' or 'correction', the two texts
\* extract_distinct_table_values puts in the TypeDocument column.
TypeDocument ==
    {[name |-> "SUJET", value |-> <<"S","U","J","E","T">>],
     [name |-> "CORRECTION", value |-> <<"C","O","R","R","E","C","T","I","O",
             "N">>]}
normalize_type_document(text) ==
    IF text = <<>> THEN "None"
    ELSE LET t == Lower(Strip(text))
         IN  IF Search(t, {Part(<<"c","o","r","r","e","c","t","i","o",
                 "n">>)}) THEN "CORRECTION"
             ELSE IF Search(t, {Part(<<"s","u","j","e","t">>)}) THEN "SUJET"
             ELSE "None"

\* What the loop of a column compares with None, with the text it puts in
\* the Enum_Value cell: the value of the member, or the session code.
EnumValue(col, val) ==
    IF col = "Localisation"
    THEN Member(Localisation, normalize_localisation(val)).code
    ELSE IF col = "Session" THEN normalize_session(val).code
    ELSE IF col = "Discipline"
    THEN Member(Discipline, normalize_discipline(val)).code
    ELSE IF col = "Serie" THEN Member(Serie, normalize_serie(val)).code
    ELSE Member(TypeDocument, normalize_type_document(val)).code

\* sorted(all_values[col])
Sorted(col) ==
    SelectSeq(Detected[col], LAMBDA v : v \in all_values[col])

\* add_row(col, val, enum value or '', 'OK' or 'MISSING')
Row(col, val) ==
    [Colonne |-> col,
     Valeur |-> val,
     Enum_Value |-> EnumValue(col, val).text,
     Status |-> IF EnumValue(col, val).some THEN "OK" ELSE "MISSING"]

\* sys_exit(1) if missing else sys_exit(0)
ExitCodeZero(m) == 0

ExitCode(m) == IF m THEN 1 ELSE 0

NotExited == -1

ValIdle ==
    /\ vpc = "off"
    /\ all_values = [c \in Columns |-> {}]
    /\ rows = <<>>
    /\ missing = FALSE
    /\ report = <<>>
    /\ exit_code = NotExited

ValInit ==
    /\ vpc = "Localisation"
    /\ all_values \in [Localisation : SUBSET Range(Detected.Localisation),
                        Session : SUBSET Range(Detected.Session),
                        Discipline : SUBSET Range(Detected.Discipline),
                        Serie : SUBSET Range(Detected.Serie),
                        TypeDocument : SUBSET Range(Detected.TypeDocument)]
    /\ rows = <<>>
    /\ missing = FALSE
    /\ report = <<>>
    /\ exit_code = NotExited

\* One `for val in sorted(all_values[col])` loop.
ValidateColumn(col, then) ==
    /\ vpc = col
    /\ LET vals == Sorted(col)
       IN  /\ rows' = rows \o [i \in 1..Len(vals) |-> Row(col, vals[i])]
           /\ missing' = (missing \/
                          \E i \in 1..Len(vals) : ~EnumValue(col,
                                  vals[i]).some)
    /\ vpc' = then
    /\ UNCHANGED <<all_values, report, exit_code>>
    /\ ValFrame

ValidateLocalisation == ValidateColumn("Localisation", "Session")
ValidateSession == ValidateColumn("Session", "Discipline")
ValidateDiscipline == ValidateColumn("Discipline", "Serie")
ValidateSerie == ValidateColumn("Serie", "TypeDocument")
ValidateTypeDocument == ValidateColumn("TypeDocument", "write")

\* The report is written and the process exits.
WriteReportAndExit ==
    /\ vpc = "write"
    /\ report' = rows
    /\ exit_code' = ExitCode(missing)
    /\ vpc' = "exited"
    /\ UNCHANGED <<all_values, rows, missing>>
    /\ ValFrame

ValNext ==
    \/ ValidateLocalisation
    \/ ValidateSession
    \/ ValidateDiscipline
    \/ ValidateSerie
    \/ ValidateTypeDocument
    \/ WriteReportAndExit

-----------------------------------------------------------------------------
(***************************************************************************)
(* The rate limiter under concurrent callers                               *)
(***************************************************************************)
GateSpecInit ==
    GateInit /\ RetryIdle /\ WalkIdle /\ JobIdle /\ NormIdle /\ ValIdle
    /\ ClickIdle
    /\ DetectIdle
    /\ FileIdle
    /\ TraverseIdle
GateSpec == GateSpecInit /\ [][GateNext]_vars

\* C1: no two acquisition timestamps recorded by RateLimiter.wait, of any
\* two workers, are closer together than the delay.
C1_StartsSpaced ==
    \A i, j \in 1..Len(starts) :
        i < j => starts[j][2] - starts[i][2] >= REQUEST_DELAY

\* The threads between their read of last_request_time and their write of it.
InGate == {t \in Threads : gpc[t] \in {"elapsed", "sleep", "stamp"}}

\* C2: the read of last_request_time, the elapsed check with its sleep and
\* the write of the new value are one critical section: never two threads
\* inside it at once.
C2_GateSerialized == Cardinality(InGate) <= 1

-----------------------------------------------------------------------------
(***************************************************************************)
(* The retry decorator                                                     *)
(***************************************************************************)
RetrySpecInit ==
    RetryInit /\ GateIdle /\ WalkIdle /\ JobIdle /\ NormIdle /\ ValIdle
    /\ ClickIdle
    /\ DetectIdle
    /\ FileIdle
    /\ TraverseIdle
RetrySpec == RetrySpecInit /\ [][RetryNext]_vars

\* C4: the operation is attempted at most max_retries times; a retryable
\* failure at attempt index i < max_retries - 1 is followed by a sleep of
\* backoff_factor^i and then by attempt i + 1; a failure at index
\* max_retries - 1, or a failure that is not retryable, is propagated with
\* no sleep and no attempt after it.
C4_RetryContract ==
    LET n == Len(rlog) IN
    /\ Cardinality({k \in 1..n : rlog[k].kind = "call"}) <= max_retries
    /\ \A k \in 1..n :
         LET e == rlog[k] IN
         /\ e.kind = "call" =>
              /\ e.i < max_retries
              /\ (k = 1) => (e.i = 0)
              /\ (e.out = "other" \/ (e.out = "retryable" /\ e.i = max_retries - 1))
                    => (k = n /\ rpc \in {"except", "raised"} /\ rexc = e.out)
              /\ (e.out = "retryable" /\ e.i < max_retries - 1 /\ k < n)
                    => (rlog[k + 1].kind = "sleep")
              /\ (e.out = "retryable" /\ e.i < max_retries - 1 /\ k = n)
                    => (rpc = "except")
              /\ (e.out = "ok") => (k = n /\ rpc = "returned")
         /\ e.kind = "sleep" =>
              /\ k > 1
              /\ rlog[k - 1].kind = "call"
              /\ rlog[k - 1].out = "retryable"
              /\ rlog[k - 1].i = e.i
              /\ e.i < max_retries - 1
              /\ e.d = backoff_factor ^ e.i
              /\ (k < n) => (rlog[k + 1].kind = "call" /\ rlog[k + 1].i = e.i + 1)
              /\ (k = n) => (rpc = "sleep" \/ (rpc = "call" /\ attempt = e.i + 1))

\* C4 witness: two retryable failures were each followed by their sleep
\* and the next attempt, and the failure of the last attempt was propagated.
C4_Witness ==
    /\ rpc = "raised"
    /\ max_retries = 3
    /\ backoff_factor = 2
    /\ Len(rlog) = 5
    /\ rlog[2].kind = "sleep" /\ rlog[2].d = 1
    /\ rlog[4].kind = "sleep" /\ rlog[4].d = 2
    /\ rlog[5].kind = "call" /\ rlog[5].i = 2 /\ rlog[5].out = "retryable"

-----------------------------------------------------------------------------
(***************************************************************************)
(* The pagination walk                                                     *)
(***************************************************************************)
WalkSpecInit ==
    WalkInit /\ GateIdle /\ RetryIdle /\ JobIdle /\ NormIdle /\ ValIdle
    /\ ClickIdle
    /\ DetectIdle
    /\ FileIdle
    /\ TraverseIdle
WalkSpec == WalkSpecInit /\ [][WalkNext]_vars

\* The walk is one sequential call: it keeps running until it returns or
\* raises.  The fair runs followed are those with no max_pages and with
\* max_pages = 1.
WalkFairSpecInit == WalkSpecInit /\ max_pages \in {NoMax, 1}
WalkFairSpec ==
    WalkFairSpecInit /\ [][WalkNext]_vars /\ WF_vars(WalkNext)

\* Every download link read so far, in reading order.
Found == ExtractLinksFromCurrentPage(discovered)

\* The place in F of the first link with URL u.
FirstIndex(F, u) ==
    CHOOSE i \in 1..Len(F) :
        F[i].url = u /\ \A j \in 1..(i - 1) : F[j].url # u

\* R holds one record for each URL of F, the first one read, and holds
\* them in the order in which the URLs were first read.
FirstDiscoveries(R, F) ==
    /\ \A p, q \in 1..Len(R) : p # q => R[p].url # R[q].url
    /\ {R[p].url : p \in 1..Len(R)} = {F[i].url : i \in 1..Len(F)}
    /\ \A p \in 1..Len(R) : R[p] = F[FirstIndex(F, R[p].url)]
    /\ \A p, q \in 1..Len(R) :
         p < q => FirstIndex(F, R[p].url) < FirstIndex(F, R[q].url)

\* C5: the list extract_pdf_links builds and returns holds no two records
\* with the same absolute URL, and its records are in the order in which
\* each URL was first discovered.
C5_UniqueInDiscoveryOrder ==
    /\ FirstDiscoveries(all_pdf_data, Found)
    /\ wpc = "done" => (wret.kind = "list" /\ FirstDiscoveries(wret.val, Found))

\* C5 witness: the walk returned two records after reading, on more than
\* one page, three download links of which two have the same URL.
C5_Witness ==
    /\ wpc = "done"
    /\ pages_done >= 2
    /\ Len(Found) = 3
    /\ Len(wret.val) = 2
    /\ \E i, j \in 1..3 :
         /\ i < j
         /\ Found[i].url = Found[j].url
         /\ Found[i].data_atl_name # Found[j].data_atl_name

\* C6: when the call has exited, every browser session it started has been
\* quit and self.driver is None.
C6_SessionReleased ==
    wpc \in {"done", "error"} => (quits = browsers /\ driver = "none")

\* The walk has left its loop with a list to return.
Returning(why) ==
    /\ wpc \in {"finally", "done"}
    /\ wexit = "return"
    /\ stopped_by = why
    /\ wret = [kind |-> "list", val |-> all_pdf_data]

\* C7 (what may never happen): more than 100 page transitions; a walk that
\* goes on after the 100th; a return value other than the links collected.
C7_CeilingHolds ==
    /\ transitions <= PageCeiling
    /\ transitions = PageCeiling => Returning("ceiling")
    /\ wpc = "done" => (wret = [kind |-> "list", val |-> all_pdf_data]
                         /\ pdf_links = all_pdf_data)

Min(a, b) == IF a < b THEN a ELSE b

-----------------------------------------------------------------------------
(***************************************************************************)
(* The download engine over a batch of jobs                                *)
(***************************************************************************)
JobSpecInit ==
    JobInit /\ GateIdle /\ RetryIdle /\ WalkIdle /\ NormIdle /\ ValIdle
    /\ ClickIdle
    /\ DetectIdle
    /\ FileIdle
    /\ TraverseIdle
JobSpec == JobSpecInit /\ [][JobNext]_vars

\* Every worker thread gets to run, and so does the caller of the batch;
\* the batch starts with no persisted failure list.
JobFairSpecInit == JobSpecInit /\ failed_file = NotSaved
JobFairSpec ==
    /\ JobFairSpecInit
    /\ [][JobNext]_vars
    /\ \A j \in Jobs : WF_vars(JobStep(j))
    /\ WF_vars(BatchReturn \/ SaveMetadata \/ SaveFailedDownloads)

\* The attempts a job has made that sent a request.
Requests(j) == {i \in 1..Len(jlog[j]) : jlog[j][i].did # "skipped"}

\* The server delivered a whole body that is a sound file of its true type.
Sound(e) == ValidContent(DetectedExtension(e.ctype, e.body), e.body)

\* The fetch of job j failed retryably on attempts 1 and 2 and on attempt 3
\* delivered a sound document that the engine kept.
FailsTwiceThenSucceeds(j) ==
    /\ Len(jlog[j]) = MAX_RETRIES
    /\ jlog[j][1].did = "retryable"
    /\ jlog[j][2].did = "retryable"
    /\ jlog[j][3].did = "fetched"
    /\ Sound(jlog[j][3])

Downloaded(j) ==
    /\ jresult[j].kind = "path"
    /\ \E i \in 1..Len(download_history) :
           download_history[i] = [url |-> j, filepath |-> jresult[j].path]

\* C3: with three attempts allowed, a job whose fetch fails retryably on
\* attempts 1 and 2 and succeeds on attempt 3 is never raised out of or
\* sent to sleep again, ends Downloaded, and has slept exactly twice, the
\* second sleep at least as long as the first.
C3_FailsTwiceThenDownloaded ==
    \A j \in Jobs :
        FailsTwiceThenSucceeds(j) =>
            /\ jpc[j] \in {"detect", "validate", "record", "extract",
                            "returned", "collected"}
            /\ jpc[j] \in {"returned", "collected"} => Downloaded(j)
            /\ Len(jsleeps[j]) = 2
            /\ jsleeps[j][2] >= jsleeps[j][1]

C3_Witness ==
    \E j \in Jobs :
        /\ FailsTwiceThenSucceeds(j)
        /\ jpc[j] = "collected"
        /\ Downloaded(j)
        /\ jsleeps[j] = <<1, 2>>

C10_RecordAfterValidation ==
    [][download_history' # download_history =>
          \E j \in Jobs :
              /\ jpc[j] = "record"
              /\ jvalid[j] # NoPath
              /\ fs[jvalid[j]].there
              /\ ValidContent(jvalid[j].ext, fs[jvalid[j]])
              /\ download_history' =
                     Append(download_history,
                            [url |-> j, filepath |-> jvalid[j]])]_vars

C10_Witness ==
    \E j, k \in Jobs :
        /\ Downloaded(j)
        /\ jresult[k].kind = "None"
        /\ jlog[k][Len(jlog[k])].did = "fetched"
        /\ \A i \in 1..Len(download_history) : download_history[i].url # k

\* The urls that have a record in failed_downloads.
FailureUrls == {failed_downloads[i].url : i \in 1..Len(failed_downloads)}

\* The job ended in a terminal failure: download_file raised, or gave None.
TerminalFailure(j) ==
    /\ jpc[j] \in {"returned", "raised", "collected"}
    /\ jresult[j].kind \in {"raise", "None"}

\* C11: every job that ended in a terminal failure has a record of its url
\* in failed_downloads, and so has every url of batch_download's failed
\* list.
C11_FailureRecorded ==
    /\ \A j \in Jobs : TerminalFailure(j) => j \in FailureUrls
    /\ \A i \in 1..Len(failed) : failed[i] \in FailureUrls

\* The step in which validate_file rejects the file job j has written.
RejectionOf(j) ==
    /\ jpc[j] = "validate"
    /\ jpc'[j] # "validate"
    /\ ~ValidContent(jpath[j].ext, fs[jpath[j]])

\* A job that was given None is over: it is not fetching, sleeping or
\* waiting at the gate again, and the batch counts it as failed only.
NoneIsFinal ==
    \A j \in Jobs :
        jresult[j].kind = "None" =>
            /\ jpc[j] \in {"returned", "collected"}
            /\ jpc[j] = "collected" =>
                   /\ \E i \in 1..Len(failed) : failed[i] = j
                   /\ Len(successful) + Len(failed) <= Cardinality(Jobs)

\* C12: when validate_file rejects the written file, the job returns None
\* at once (no further attempt), the file at the output path is deleted,
\* the batch counts the job as failed, and nothing of any other job (its
\* position, result, attempts, files) changes.
C12_ValidationFailureIsLocal ==
    /\ []NoneIsFinal
    /\ [][\A j \in Jobs :
            RejectionOf(j) =>
                /\ jpc'[j] = "returned"
                /\ jresult'[j].kind = "None"
                /\ jattempt'[j] = jattempt[j]
                /\ jlog'[j] = jlog[j]
                /\ ~fs'[jpath[j]].there
                /\ \A p \in JobPaths : p # jpath[j] => fs'[p] = fs[p]
                /\ \A k \in Jobs \ {j} :
                       /\ jpc'[k] = jpc[k]
                       /\ jresult'[k] = jresult[k]
                       /\ jlog'[k] = jlog[k]
                       /\ jattempt'[k] = jattempt[k]
                /\ UNCHANGED <<download_history, failed_downloads,
                               successful, failed, dirs>>]_vars

C12_Witness ==
    \E j \in Jobs, k \in Jobs :
        /\ j # k
        /\ jpc[j] = "collected"
        /\ jresult[j].kind = "None"
        /\ jlog[j][Len(jlog[j])].did = "fetched"
        /\ ~Sound(jlog[j][Len(jlog[j])])
        /\ ~fs[jpath[j]].there
        /\ jpc[k] = "collected"
        /\ Downloaded(k)

\* The jobs whose future the loop of batch_download has handled.
Collected == {j \in Jobs : jpc[j] = "collected"}

\* Every handled job is in exactly one of the two lists, exactly once: the
\* failed list holds the urls given None or an exception, without repeats,
\* and the successful list has one path for each of the others.
CountedOnce ==
    /\ Len(successful) + Len(failed) = Cardinality(Collected)
    /\ \A i, k \in 1..Len(failed) : failed[i] = failed[k] => i = k
    /\ {failed[i] : i \in 1..Len(failed)} =
           {j \in Collected : jresult[j].kind # "path"}
    /\ Len(successful) =
           Cardinality({j \in Collected : jresult[j].kind = "path"})
    /\ \A i \in 1..Len(successful) :
           \E j \in Collected : jresult[j] = [kind |-> "path",
                                             path |-> successful[i]]

\* C13: whatever the outcomes of the jobs, batch_download returns, and when
\* it has, every submitted job is counted exactly once, in successful or in
\* failed: the two lengths add up to the number of jobs.
C13_BatchCountsEveryJob ==
    /\ []CountedOnce
    /\ [](bpc # "pool" =>
             Len(successful) + Len(failed) = Cardinality(Jobs))
    /\ <>(bpc # "pool")

C13_Witness ==
    \E j, k \in Jobs :
        /\ bpc = "returned"
        /\ jresult[j].kind = "raise"
        /\ jresult[k].kind = "path"
        /\ Len(successful) = 1
        /\ failed = <<j>>

Terminal(j) == jpc[j] \in {"returned", "raised", "collected"}

\* A job makes at most MAX_RETRIES attempts, is given a result exactly when
\* it is over, and is raised out of only by an error the wrapper does not
\* catch or by the failure of its last attempt.
RetryLoopRunsOut ==
    \A j \in Jobs :
        /\ Len(jlog[j]) <= MAX_RETRIES
        /\ Cardinality(Requests(j)) <= MAX_RETRIES
        /\ jattempt[j] < MAX_RETRIES
        /\ Terminal(j) <=> jresult[j] # NoResult
        /\ jresult[j].kind = "raise" =>
               \/ jlog[j][Len(jlog[j])].did = "other"
               \/ /\ jlog[j][Len(jlog[j])].did = "retryable"
                  /\ Len(jlog[j]) = MAX_RETRIES

\* C14: under fair scheduling every job of the batch ends, with one result
\* that never changes afterwards (a path for Downloaded or Skipped, None or
\* an exception for Failed), after at most MAX_RETRIES attempts; a job in
\* its retry loop is only ever ended by a result or by the last attempt.
C14_EveryJobEnds ==
    /\ []RetryLoopRunsOut
    /\ [][\A j \in Jobs :
            jresult[j] # NoResult => jresult'[j] = jresult[j]]_vars
    /\ \A j \in Jobs : <>Terminal(j)

C14_Witness ==
    \E j, k \in Jobs :
        /\ jpc[j] = "collected"
        /\ jresult[j].kind = "raise"
        /\ Len(jlog[j]) = MAX_RETRIES
        /\ jsleeps[j] = <<1, 2>>
        /\ jpc[k] = "collected"
        /\ jlog[k] = <<Did("retryable"),
                       Entry("fetched", "application/pdf", PdfDoc)>>

\* The last attempt of job j fetched a whole body.
LastEntry(j) == jlog[j][Len(jlog[j])]

\* The response of job j declared no content type, its body begins with
\* the archive signature, and no file was at the corrected path.
UndeclaredArchive(j) ==
    /\ jlog[j] # <<>>
    /\ LastEntry(j).did = "fetched"
    /\ LastEntry(j).ctype = "unknown"
    /\ LastEntry(j).body.sig = "PK"

ZipPath(j) == WithSuffix(OutputPath(j), ".zip")
Recorded(j, p) ==
    \E i \in 1..Len(download_history) :
        download_history[i] = [url |-> j, filepath |-> p]
HasRecord(j) == \E i \in 1..Len(download_history) : download_history[i].url = j

\* Rename, then validation, then the record, then the expansion: what
\* holds at each position of such a job.
ArchiveStepsInOrder(j) ==
    /\ jpc[j] = "validate" =>
           /\ jpath[j] = ZipPath(j)
           /\ fs[ZipPath(j)] = LastEntry(j).body
           /\ ~fs[OutputPath(j)].there
           /\ jvalid[j] = NoPath
           /\ ~HasRecord(j)
           /\ jpath[j].stem \notin dirs
    /\ jpc[j] = "record" =>
           /\ jvalid[j] = ZipPath(j)
           /\ LastEntry(j).body.archive
           /\ ~HasRecord(j)
           /\ jpath[j].stem \notin dirs
    /\ jpc[j] = "extract" =>
           /\ Recorded(j, ZipPath(j))
           /\ jpath[j].stem \notin dirs
    /\ jpath[j].stem \in dirs =>
           /\ Recorded(j, ZipPath(j))
           /\ jpc[j] \in {"returned", "collected"}
    /\ HasRecord(j) => Recorded(j, ZipPath(j)) /\ jvalid[j] = ZipPath(j)

SaveFailedCalled ==
    /\ bpc = "metadata_saved"
    /\ bpc' = "done"
    /\ failed # <<>>

\* C16: the persisted failure list changes only by a call of
\* save_failed_downloads with a non-empty failed_downloads, which writes
\* that list; a call with an empty failed_downloads leaves the file as it
\* was, absent or not.
C16_SavedOnlyWhenNonEmpty ==
    [][/\ failed_file' # failed_file =>
            /\ SaveFailedCalled
            /\ failed_downloads # <<>>
       /\ SaveFailedCalled =>
            IF failed_downloads = <<>>
            THEN failed_file' = failed_file
            ELSE failed_file' = Saved(failed_downloads)]_vars

C16_Witness ==
    /\ bpc = "done"
    /\ failed # <<>>
    /\ failed_downloads = <<>>
    /\ failed_file = Saved(OldFailures)
    /\ metadata_file.there

-----------------------------------------------------------------------------
(***************************************************************************)
(* The normalizers, each called once on each text                          *)
(***************************************************************************)
NormSpecInit ==
    NormInit /\ GateIdle /\ RetryIdle /\ WalkIdle /\ JobIdle /\ ValIdle
    /\ ClickIdle
    /\ DetectIdle
    /\ FileIdle
    /\ TraverseIdle
NormSpec == NormSpecInit /\ [][NormNext]_vars

(***************************************************************************)
(* run_validation after its crawl                                          *)
(***************************************************************************)
ValSpecInit ==
    ValInit /\ GateIdle /\ RetryIdle /\ WalkIdle /\ JobIdle /\ NormIdle
    /\ ClickIdle
    /\ DetectIdle
    /\ FileIdle
    /\ TraverseIdle
ValSpec == ValSpecInit /\ [][ValNext]_vars

\* Every detected value of every column normalizes to a canonical code.
AllNormalize ==
    \A c \in Columns : \A v \in all_values[c] : EnumValue(c, v).some

\* The report has one row for each detected value of each column.
OneRowPerValue ==
    \A c \in Columns : \A v \in all_values[c] :
        Cardinality({i \in 1..Len(report) :
                        report[i].Colonne = c /\ report[i].Valeur = v}) = 1

\* C17: run_validation exits with code 0 when every detected value of every
\* column normalizes, which is when every row of the report has status OK,
\* and with code 1 when at least one row has status MISSING.
C17_ExitCodeTellsMissing ==
    vpc = "exited" =>
        /\ OneRowPerValue
        /\ exit_code \in {0, 1}
        /\ exit_code = 0 <=> AllNormalize
        /\ exit_code = 0 <=>
               \A i \in 1..Len(report) : report[i].Status = "OK"
        /\ exit_code = 1 <=>
               \E i \in 1..Len(report) : report[i].Status = "MISSING"

C17_Witness ==
    /\ vpc = "exited"
    /\ exit_code = 1
    /\ \E i, k \in 1..Len(report) :
           /\ report[i].Status = "OK"
           /\ report[k].Status = "MISSING"
           /\ report[k].Colonne = "Session"

\* C18: normalize_session gives ("2024_NORMAL", NORMAL) for
\* "2024 - épreuves normales", ("2024_REMPLACEMENT", REMPLACEMENT) for
\* "24 remplacement", and (None, None) for the empty string.
C18_SessionExamples ==
    (npc = "done" /\ nfun = "session") =>
        /\ ntext = TxNormales2024 =>
               nout = [code |-> Some(<<"2","0","2","4","_","N","O","R","M",
                       "A","L">>), kind |-> "NORMAL"]
        /\ ntext = TxRemplacement24 =>
               nout = [code |-> Some(<<"2","0","2","4","_","R","E","M","P",
                       "L","A","C","E","M","E","N","T">>),
                       kind |-> "REMPLACEMENT"]
        /\ ntext = TxEmpty => nout = [code |-> NoText, kind |-> "None"]

C18_Witness ==
    /\ npc = "done"
    /\ nfun = "session"
    /\ ntext = TxRemplacement24
    /\ nout.code.some

\* The codes of the enumeration a normalizer returns members of.
CodesOf(f) ==
    IF f = "localisation" THEN {c.value : c \in Localisation}
    ELSE IF f = "session" THEN SessionCodes
    ELSE IF f = "serie" THEN {c.value : c \in Serie}
    ELSE {c.value : c \in Discipline}

\* C19: a normalizer called on a code of its own enumeration returns that
\* code.
C19_CodesAreFixedPoints ==
    (npc = "done" /\ ntext \in CodesOf(nfun)) => nout.code = Some(ntext)

\* What normalize_session returns when neither the year nor the kind
\* resolves.
FullAbsence == normalize_session(TxNeither)
YearResolves(text) == SessionYear(Lower(Strip(text))).some
KindResolves(text) == SessionKind(Lower(Strip(text))) # "None"

\* C20: normalize_session returns a code only when both the year and the
\* kind resolve, and what it returns when exactly one of them resolves
\* differs from what it returns when neither does.
C20_PartialIsDistinct ==
    (npc = "done" /\ nfun = "session") =>
        /\ nout.code.some => (YearResolves(ntext) /\ KindResolves(ntext))
        /\ (YearResolves(ntext) # KindResolves(ntext)) => nout # FullAbsence

-----------------------------------------------------------------------------
(***************************************************************************)
(* _click_next_page: claims                                                *)
(***************************************************************************)

ClickSpecInit ==
    ClickInit /\ GateIdle /\ RetryIdle /\ WalkIdle /\ JobIdle /\ NormIdle
    /\ ValIdle /\ DetectIdle /\ FileIdle /\ TraverseIdle
ClickSpec == ClickSpecInit /\ [][ClickNext]_vars

\* C21: a stale pagination control is retried once: after a second stale
\* reference _click_next_page is not entered again, so that one chain of
\* calls never makes a third lookup of the control.
C21_StaleRetriedOnce == ccall <= 2

-----------------------------------------------------------------------------
(***************************************************************************)
(* extract_pdf_links: error handling                                       *)
(***************************************************************************)

\* C23: when session start, the first navigation or the bounded wait for
\* the first page fails, extract_pdf_links raises to its caller instead of
\* returning a list, no page was extracted, and every browser session that
\* was started has been quit with self.driver reset.
C23_EarlyFailurePropagates ==
    (wpc = "error" /\ page_number = 0) =>
        /\ wret = [kind |-> "raise"]
        /\ pages_done = 0
        /\ all_pdf_data = <<>>
        /\ pdf_links = <<>>
        /\ quits = browsers
        /\ driver = "none"

\* The walk leaves its loop in this step with the links collected so far,
\* each URL once, and without raising.
EndsAsDone ==
    /\ wpc' = "finally"
    /\ wexit' = "return"
    /\ wret' = [kind |-> "list", val |-> all_pdf_data]
    /\ all_pdf_data' = all_pdf_data
    /\ FirstDiscoveries(all_pdf_data, Found)

-----------------------------------------------------------------------------
(***************************************************************************)
(* download_file: the steps of one job                                     *)
(***************************************************************************)

\* The destination of job j is on disk and passes the full validation of
\* its kind.
DestinationSound(j) ==
    /\ fs[OutputPath(j)].there
    /\ ValidContent(OutputPath(j).ext, fs[OutputPath(j)])

\* C25: the skip test of download_file returns the destination (Skipped)
\* exactly when skip_existing was requested and the destination exists and
\* passes full validation; in every other case, an existing destination
\* that fails validation and skip_existing = False included, the job goes
\* on to the fetch with no result yet.
C25_SkippedOnlyWhenSound ==
    [][\A j \in Jobs :
         (jpc[j] = "check" /\ jpc'[j] # "check") =>
            IF skip_existing /\ DestinationSound(j)
            THEN /\ jpc'[j] = "returned"
                 /\ jresult'[j] = [kind |-> "path", path |-> OutputPath(j)]
                 /\ jlog'[j] = Append(jlog[j], Did("skipped"))
                 /\ fs' = fs
            ELSE /\ jpc'[j] = "fetch"
                 /\ jresult'[j] = NoResult
                 /\ jlog'[j] = jlog[j]
      ]_vars

\* C25 witness: skip_existing is set, the destination exists but is too
\* small to be valid, and the job is about to fetch on its first attempt.
C25_Witness ==
    /\ skip_existing
    /\ fs[OutputPath("u1")] = TinyPdf
    /\ jlog["u1"] = <<>>
    /\ jpc["u1"] = "fetch"

\* C26: the skip test precedes the acquisition of the rate gate: a job
\* whose first attempt returned Skipped has not called limiter.wait().
C26_SkippedNeverAcquires ==
    \A j \in Jobs : jlog[j] = <<Did("skipped")>> => jgate[j] = 0

\* The fetch failures the retry policy names: connection errors, timeouts
\* and HTTP errors of the server.
NamedRetryable == {"ConnectionError", "Timeout", "HTTPError 503"}

\* C27: a job is sent to the backoff sleep of a retry only by a connection
\* error, a timeout or a server HTTP error; each of these, short of the
\* last attempt, does send it there; and the steps that detect the type
\* and validate the file never start a retry.
C27_RetriedExactlyNamed ==
    [][\A j \in Jobs :
         /\ (jpc[j] # "sleep" /\ jpc'[j] = "sleep") =>
                jexc'[j] \in NamedRetryable
         /\ ( /\ jpc[j] = "fetch"
              /\ jexc'[j] \in NamedRetryable
              /\ jattempt[j] < MAX_RETRIES - 1 ) => jpc'[j] = "sleep"
         /\ jpc[j] \in {"detect", "validate"} =>
                (jpc'[j] # "sleep" /\ jattempt'[j] = jattempt[j])
      ]_vars

\* The step in which job j leaves type detection, the detected extension
\* differing from that of its provisional path old; new is the corrected
\* path.
Corrects(j, old, new) ==
    /\ jpc[j] = "detect"
    /\ jpc'[j] # "detect"
    /\ old = jpath[j]
    /\ new = [stem |-> old.stem,
              ext |-> DetectedExtension(jctype[j], fs[old])]
    /\ new # old

\* C28: when the detected extension differs from the provisional one and a
\* file is already at the corrected path, the downloaded file is deleted,
\* the file at the corrected path is left as it was, and download_file
\* returns that path if the file is valid for its extension and None
\* (Failed) otherwise, recording nothing; when no file is at the corrected
\* path the downloaded file is moved there and the job goes on with it.
C28_CorrectedPathConflict ==
    [][\A j \in Jobs : \A old, new \in JobPaths :
         Corrects(j, old, new) =>
            IF fs[new].there
            THEN /\ fs' = [fs EXCEPT ![old] = NoFile]
                 /\ jpc'[j] = "returned"
                 /\ jresult'[j] =
                        IF ValidContent(new.ext, fs[new])
                        THEN [kind |-> "path", path |-> new]
                        ELSE [kind |-> "None", path |-> NoPath]
                 /\ download_history' = download_history
            ELSE /\ fs' = [fs EXCEPT ![old] = NoFile, ![new] = fs[old]]
                 /\ jpath'[j] = new
                 /\ jpc'[j] = "validate"
                 /\ jresult'[j] = NoResult
      ]_vars

\* C28 witness: an archive was served as a PDF's replacement while a sound
\* archive was already at the corrected path: the download is gone, the
\* earlier archive is untouched and is the job's result.
C28_Witness ==
    /\ jlog["u1"] # <<>>
    /\ LastEntry("u1").did = "conflict"
    /\ LastEntry("u1").body = BadZip
    /\ jpc["u1"] = "returned"
    /\ fs[OutputPath("u1")] = NoFile
    /\ fs[ZipPath("u1")] = ZipDoc
    /\ jresult["u1"] = [kind |-> "path", path |-> ZipPath("u1")]

\* C29: when the expansion of a downloaded archive fails (no folder is
\* made), download_file still returns the archive path, and the record
\* appended for it before the expansion is in download_history, which is
\* only ever appended to.
C29_ExpansionFailureKeepsDownload ==
    [][/\ \A j \in Jobs :
            ( /\ jpc[j] = "extract"
              /\ jpc'[j] # "extract"
              /\ jpath[j].stem \notin dirs' ) =>
                 /\ jresult'[j] = [kind |-> "path", path |-> jpath[j]]
                 /\ jpc'[j] = "returned"
                 /\ fs' = fs
                 /\ Recorded(j, jpath[j])
       /\ Len(download_history') >= Len(download_history)
       /\ SubSeq(download_history', 1, Len(download_history))
             = download_history
      ]_vars

\* C29 witness: an archive was downloaded and recorded, its expansion made
\* no folder, and the batch counted the archive path as a success.
C29_Witness ==
    /\ jpc["u1"] = "collected"
    /\ jresult["u1"] = [kind |-> "path", path |-> ZipPath("u1")]
    /\ fs[ZipPath("u1")] = ZipDoc
    /\ "f1" \notin dirs
    /\ Recorded("u1", ZipPath("u1"))
    /\ successful # <<>>
    /\ \E i \in 1..Len(successful) : successful[i] = ZipPath("u1")

-----------------------------------------------------------------------------
(***************************************************************************)
(* Type detection: claims                                                  *)
(***************************************************************************)

DetectSpecInit ==
    DetectInit /\ GateIdle /\ RetryIdle /\ WalkIdle /\ ClickIdle /\ JobIdle
    /\ FileIdle
    /\ TraverseIdle
    /\ NormIdle /\ ValIdle
DetectSpec == DetectSpecInit /\ [][DetectNext]_vars

\* C30: when the declared content type maps to an extension, that is the
\* detected extension and the file is never read; the file is read only
\* when the declared type is generic or absent; and then a file that
\* cannot be read, or whose leading bytes are no known signature, gives
\* '.bin', a known signature its own extension.
C30_DeclaredTypeFirst ==
    LET mapped == ExtensionFromContentType(content_type) IN
    /\ magic_bytes # Unread =>
          (mapped = "none" /\ readable /\ magic_bytes = leading)
    /\ tpc = "sniff" => mapped = "none"
    /\ tpc = "done" =>
          IF mapped # "none"
          THEN detected_extension = mapped /\ magic_bytes = Unread
          ELSE IF ~readable
               THEN detected_extension = ".bin" /\ magic_bytes = Unread
               ELSE detected_extension =
                       CASE leading = "%PDF" -> ".pdf"
                         [] leading = "PK" -> ".zip"
                         [] OTHER -> ".bin"

\* C30 witness: an archive body declared as a PDF is taken for a PDF
\* without being read.
C30_Witness ==
    /\ tpc = "done"
    /\ content_type = "application/pdf"
    /\ leading = "PK"
    /\ readable
    /\ magic_bytes = Unread
    /\ detected_extension = ".pdf"

-----------------------------------------------------------------------------
(***************************************************************************)
(* validate_file                                                           *)
(***************************************************************************)

FileSpecInit ==
    FileInit /\ GateIdle /\ RetryIdle /\ WalkIdle /\ ClickIdle /\ JobIdle
    /\ DetectIdle /\ NormIdle /\ ValIdle /\ TraverseIdle
FileSpec == FileSpecInit /\ [][FileNext]_vars

Passed == fpc = "done" /\ is_valid = "True"
ArchiveBacked == {".zip", ".docx", ".odt"}
Generic == {".bin", ".txt", ""}

C32_HistoryAppendOnly ==
    [][\/ download_history' = download_history
       \/ /\ Len(download_history') = Len(download_history) + 1
          /\ SubSeq(download_history', 1, Len(download_history))
                 = download_history]_vars

\* C32 witness: both jobs have their record, the second job's first, and
\* save_metadata has written the list.
C32_Witness ==
    /\ Len(download_history) = 2
    /\ download_history[1].url = "u2"
    /\ download_history[2].url = "u1"
    /\ metadata_file = Saved(download_history)

\* C33: every fetch attempt of a job, the first and each retry, comes after
\* a limiter.wait() of its own: when a job is about to issue its request,
\* its worker has completed one wait more than the job has issued requests.
C33_EveryAttemptAcquires ==
    \A j \in Jobs :
        jpc[j] = "fetch" => jgate[j] = Cardinality(Requests(j)) + 1

\* C33 witness: a job is about to issue its third request, after two
\* attempts that failed and were retried.
C33_Witness ==
    \E j \in Jobs :
        /\ jpc[j] = "fetch"
        /\ jattempt[j] = 2
        /\ Cardinality(Requests(j)) = 2
        /\ jgate[j] = 3

FailureRecords(j) ==
    {i \in 1..Len(failed_downloads) : failed_downloads[i].url = j}

\* C34: a failed attempt that is retried appends no FailureRecord: a job
\* has at most one record in failed_downloads, and none once it has ended
\* Downloaded.
C34_OneFailureRecordPerJob ==
    \A j \in Jobs :
        /\ Cardinality(FailureRecords(j)) <= 1
        /\ Terminal(j) /\ Downloaded(j) => FailureRecords(j) = {}

\* C35: a file left at the destination by a fetch attempt that failed while
\* the body was streamed is never returned as the job's result: no retry of
\* a job takes the skip-existing path.  (A job writes under its own name
\* only, and a destination that was sound before the job began is skipped
\* by its first attempt, so a skip on a later attempt accepts what a failed
\* attempt of the same job wrote.)
C35_PartialNeverSkipped ==
    \A j \in Jobs :
        \A i \in 2..Len(jlog[j]) : jlog[j][i].did # "skipped"

\* The first thing download_file does in a second run with
\* skip_existing=True (lines 259-275): the same output_path is built from
\* the url, and the request is skipped when check_existing accepts it.
SkipsOnRerun(j) == CheckExisting(fs, OutputPath(j))

\* C36: after a run of the batch in which every job ended Downloaded, a
\* second run with skip_existing=true makes no request: on the disk the
\* first run left, every job passes the skip test, the jobs whose file was
\* renamed to a corrected extension included.
C36_RerunMakesNoRequest ==
    (bpc = "done" /\ \A j \in Jobs : Downloaded(j))
        => \A j \in Jobs : SkipsOnRerun(j)

RecordsOf(j, p) ==
    {i \in 1..Len(download_history) :
        download_history[i] = [url |-> j, filepath |-> p]}

\* C37: every job whose download_file fetched the body and returned a path
\* has exactly one DownloadRecord with that path as its filepath, also
\* when a file was already there at the corrected extension.
C37_FetchedPathRecordedOnce ==
    \A j \in Jobs :
        (/\ jpc[j] \in {"returned", "collected"}
         /\ jresult[j].kind = "path"
         /\ jlog[j] # <<>>
         /\ LastEntry(j).did \in {"fetched", "conflict"})
            => Cardinality(RecordsOf(j, jresult[j].path)) = 1

-----------------------------------------------------------------------------
(***************************************************************************)
(* The traversal of run_validation                                         *)
(***************************************************************************)

TraverseSpecInit ==
    TraverseInit /\ GateIdle /\ RetryIdle /\ WalkIdle /\ ClickIdle /\ JobIdle
    /\ DetectIdle /\ FileIdle /\ NormIdle /\ ValIdle
TraverseSpec == TraverseSpecInit /\ [][TraverseNext]_vars

\* C39: the pagination walk of run_validation is bounded by the ceiling of
\* extract_pdf_links whatever the next-page control does: it never makes
\* more than PageCeiling page transitions, so page_num, which starts at 1,
\* never passes PageCeiling + 1.
C39_TraversalUnderCeiling == page_num <= PageCeiling + 1

=============================================================================
